---- MODULE Spec2Model ----
(***************************************************************************)
(* Crop-target approval workflow of manjeetsingh2/backend.                 *)
(*                                                                         *)
(* The repository holds three request-handling implementations of the      *)
(* workflow, each over its own crop_targets table:                         *)
(*   "server_new" : src/server_new.py + services/crop_target_service.py    *)
(*                  (FastAPI, SQLAlchemy session, audit_logs table)        *)
(*   "flask"      : src/vo/*.py + src/bo/*.py (Flask blueprints)           *)
(*   "server"     : src/server.py (FastAPI, create only)                   *)
(* A behaviour runs one of them (variable impl).                           *)
(*                                                                         *)
(* A request is handled in a database session: the handler reads the row,  *)
(* validates, changes the loaded object in memory and adds the audit row   *)
(* to the session (one step), and the session's commit writes the changed  *)
(* columns and the audit row (a second step).  Several requests are        *)
(* handled at once (Slots).                                                *)
(***************************************************************************)
EXTENDS Integers, Sequences, FiniteSets, TLC

VARIABLES impl, records, audit, req, now, resp,
          rows, walk, counts,
          trail, sweep, today,
          hits, clock, calls, granted,
          users, regs, welcomed,
          errs,
          authlog, login_count, signin,
          cache, tally, dclock, served,
          probe

(* the workflow: the tables and the sessions of the requests *)
workflow == <<impl, records, audit, req, now, resp>>

(* a client's walk through the pages of a list *)
paging == <<rows, walk, counts>>

(* the audit_logs table as AuditService keeps it, and its cleanup *)
retention == <<trail, sweep, today>>

(* the in-memory rate limiter of the Flask app and the calls into it *)
limiter == <<hits, clock, calls, granted>>

(* the users table and the register requests *)
accounts == <<users, regs, welcomed>>

(* what the workflow's handlers do not touch; errs: two requests that fail,
   and how each failure is rendered *)
settled == <<paging, retention, limiter, accounts, errs>>

(* the login audit rows, the users' login counters and the session of a
   login request *)
logins == <<authlog, login_count, signin>>

(* the cache of a DashboardService, the decisions committed to the store it
   reads, its clock and the answer to the last dashboard request *)
dashboard == <<cache, tally, dclock, served>>

(* extras also holds probe, a call of the startup connectivity check *)
extras == <<logins, dashboard, probe>>

aside == <<settled, extras>>

vars == <<workflow, aside>>

(* ---------------------------------------------------------------- bounds *)
(* rows the requests of a run may create *)
MaxCreated == 1
(* requests of a run that reach the database (each reads the clock once) *)
MaxTime == 3

(* ids of the two sample rows of init_database() *)
SeedIds == {-1, 0}
Ids == SeedIds \cup 1..MaxCreated
(* the requests that can be in progress at once *)
Slots == {1, 2}

(* ------------------------------------------------------------ principals *)
Users == {"vo1", "vo2", "bo1", "bo2"}

Role(u) == IF u \in {"vo1", "vo2"} THEN "VO" ELSE "BO"

(* Python None for a nullable text / foreign-key column *)
None == "None"
(* NULL of a nullable DateTime column; clock readings are >= 1 *)
NoTime == 0
(* NULL of a nullable Numeric column; the values requests carry are >= 1 *)
NoValue == 0
(* None for a year filter that was left out *)
NoYear == 0

Impls == {"server_new", "flask", "server"}

(* inputs of the requests *)
Areas == {0, 1, 2}
CreateAreas == {0, 1}
Reasons == {None, "", " ", "dry"}
Remarks == {None, "ok"}
(* target_yield of a create request: left out, or a positive number *)
Yields == {NoValue, 2}
(* the status filter of a list request: left out, or a status *)
StatusFilters == {None, "draft", "pending"}
(* bodies of the approval request of server_new.py (ApprovalRequest) *)
ApprovalRequests ==
    [action : {"approve"}, remarks : Remarks, rejection_reason : {None}]
    \cup [action : {"reject"}, remarks : {None}, rejection_reason : Reasons]
    \cup [action : {"hold"}, remarks : {None}, rejection_reason : {None}]
(* bodies of the approval request of the bo blueprint (BOApprovalSchema) *)
ApprovalActions ==
    [status : {"approved", "held"}, rejection_comments : {None}]
    \cup [status : {"rejected"}, rejection_comments : Reasons]
CreateStatuses == {"draft", "submitted", "approved"}

(* ------------------------------------------------------------ the tables *)
Absent ==
    [exists |-> "no", status |-> None, submitted_by |-> None,
     submitted_at |-> NoTime, approved_by |-> None, approved_at |-> NoTime,
     remarks |-> None, rejection_reason |-> None, target_area |-> 0,
     target_yield |-> NoValue, expected_production |-> NoValue]

Deleted == [Absent EXCEPT !.exists = "deleted"]

Columns == {"status", "submitted_by", "submitted_at", "approved_by",
            "approved_at", "remarks", "rejection_reason", "target_area",
            "target_yield", "expected_production"}

NewRow(status, submitter, submitted_at, area) ==
    [exists |-> "yes", status |-> status, submitted_by |-> submitter,
     submitted_at |-> submitted_at, approved_by |-> None, approved_at |-> NoTime,
     remarks |-> None, rejection_reason |-> None, target_area |-> area,
     target_yield |-> NoValue, expected_production |-> NoValue]

(* CropTarget.calculate_metrics *)
calculate_metrics(target) ==
    IF target.target_area # NoValue /\ target.target_yield # NoValue
    THEN [target EXCEPT !.expected_production = target.target_area * target.target_yield]
    ELSE target

(* the two sample targets init_database() stores, submitted by the seed VO *)
SeedRecords ==
    [id \in Ids |->
        IF id = -1
        THEN calculate_metrics([NewRow("approved", "vo1", NoTime, 2)
                                   EXCEPT !.approved_by = "bo1", !.target_yield = 2])
        ELSE IF id = 0
        THEN calculate_metrics([NewRow("pending", "vo1", NoTime, 2) EXCEPT !.target_yield = 2])
        ELSE Absent]

AuditEntry(action, id, user) ==
    [action |-> action, resource_id |-> id, user_id |-> user]

(* ------------------------------------------------------ model properties *)
is_editable(target) == target.status = "draft"

is_pending_approval(target) == target.status \in {"submitted", "pending"}

can_edit(target) == target.status \in {"draft", "rejected"}

can_delete(target) == target.status = "draft"

submit_for_approval_m(target, t) ==
    IF target.status = "draft"
    THEN [target EXCEPT !.status = "submitted", !.submitted_at = t]
    ELSE target

(* an approve that also takes the record over for the approver *)
approve_taking_over(target, approver_id, remarks, t) ==
    [target EXCEPT !.status = "approved", !.approved_by = approver_id,
                   !.approved_at = t, !.submitted_by = approver_id]

approve(target, approver_id, remarks, t) ==
    [target EXCEPT !.status = "approved", !.approved_by = approver_id,
                   !.approved_at = t,
                   !.remarks = IF remarks \notin {None, ""} THEN remarks ELSE @]

reject(target, approver_id, reason, t) ==
    [target EXCEPT !.status = "rejected", !.approved_by = approver_id,
                   !.approved_at = t, !.rejection_reason = reason]

(* Python truthiness of an optional string: None and "" are falsy *)
Truthy(s) == s \notin {None, ""}

(* a reason that is absent, empty or only whitespace *)
IsBlank(s) == s \in {None, "", " "}

(* a gate that lets every role through *)
require_role_open(role, allowed_roles) == TRUE

(* require_role: the caller's role is one of the endpoint's roles *)
require_role(role, allowed_roles) == role \in allowed_roles

(* ---------------------------------------------------------- the sessions *)
Idle ==
    [op |-> "idle", caller |-> None, id |-> 0 - 2, kind |-> "none",
     snap |-> Absent, new |-> Absent, log |-> <<>>, ok |-> 0,
     detail |-> "", branch |-> ""]

(* the unit of work a session holds between the handler's read and commit *)
Tx(op, caller, id, kind, snap, new, log, ok) ==
    [op |-> op, caller |-> caller, id |-> id, kind |-> kind,
     snap |-> snap, new |-> new, log |-> log, ok |-> ok,
     detail |-> "", branch |-> ""]

(* raise ValueError(detail) in a service of the blueprints *)
Raise(detail, branch) == [Idle EXCEPT !.kind = "raise", !.detail = detail, !.branch = branch]

(* BaseService.get: the row with this id, if it is there and active *)
get(recs, id) == IF recs[id].exists = "yes" THEN recs[id] ELSE Absent

(* an id no row and no open session holds (uuid4 never repeats) *)
FreeIds == {id \in Ids \ SeedIds : records[id].exists = "no"
                          /\ \A h \in Slots : ~(req[h].kind = "insert" /\ req[h].id = id)}

NextId == CHOOSE id \in FreeIds : \A o \in FreeIds : id <= o

(* the columns whose value the handler changed: only these are in the UPDATE *)
Dirty(tx) == {c \in Columns : tx.new[c] # tx.snap[c]}

Flush(row, tx) == [c \in DOMAIN row |-> IF c \in Dirty(tx) THEN tx.new[c] ELSE row[c]]

Response(op, code, detail, branch) ==
    [op |-> op, code |-> code, detail |-> detail, branch |-> branch, items |-> {}]

(* the answer of a read: the ids of the rows it returns *)
Listing(op, items) == [Response(op, 200, "", "ok") EXCEPT !.items = items]

(* no answer is on its way to a client *)
NoResponse == Response("none", 0, "", "none")

(* a new request is taken by the first session that is free, once the answer
   to the request before it has gone out *)
Accepts(h) ==
    /\ req[h].op = "idle"
    /\ \A o \in Slots : o < h => req[o].op # "idle"
    /\ resp.branch \in {"none", "pending"}

(* the answer of a finished request goes out to its client *)
Deliver ==
    /\ resp.branch \notin {"none", "pending"}
    /\ resp' = NoResponse
    /\ UNCHANGED <<impl, records, audit, req, now>>
    /\ UNCHANGED aside

Respond(op, code, detail, branch) ==
    /\ resp' = Response(op, code, detail, branch)
    /\ UNCHANGED <<impl, records, audit, req, now>>
    /\ UNCHANGED aside

(* a read answers with the rows it found and changes nothing *)
Return(op, items) ==
    /\ resp' = Listing(op, items)
    /\ UNCHANGED <<impl, records, audit, req, now>>
    /\ UNCHANGED aside

Stage(h, tx) ==
    /\ now < MaxTime
    /\ req' = [req EXCEPT ![h] = tx]
    /\ now' = now + 1
    /\ resp' = Response(tx.op, 0, "", "pending")
    /\ UNCHANGED <<impl, records, audit>>
    /\ UNCHANGED aside

(* no list is being walked: the table of the list routes is empty *)
NoWalk ==
    [via |-> "none", per_page |-> 0, page |-> 0, seen |-> <<>>,
     total |-> 0, pages |-> 0, done |-> TRUE]

PagingAtRest ==
    /\ rows = <<>>
    /\ walk = NoWalk
    /\ counts = <<>>

(* no cleanup is running *)
NoSweep == [pc |-> "idle", cutoff |-> 0, deleted_count |-> 0, result |-> "none"]

RetentionAtRest ==
    /\ trail = <<>>
    /\ sweep = NoSweep
    /\ today = 0

(* the threads of the server (app.run(threaded=True)) *)
Threads == {1, 2, 3}
(* the module's three defaultdict(deque) *)
Limiters == {"_ip_hits", "_user_hits", "_register_hits"}
(* client addresses, and user names as the login body carries them *)
Addresses == {"ip1"}
Usernames == {"Ann", "ann"}

(* username.lower() *)
lower(username) == IF username = "Ann" THEN "ann" ELSE username

LimiterKeys == Addresses \cup {lower(username) : username \in Usernames}

(* no call is in progress in the thread *)
NoCall == [pc |-> "idle", limiter |-> "none", key |-> "none", now |-> 0, returned |-> "none"]

LimiterAtRest ==
    /\ hits = [l \in Limiters |-> [k \in LimiterKeys |-> <<>>]]
    /\ clock = 0
    /\ calls = [th \in Threads |-> NoCall]
    /\ granted = [l \in Limiters |-> [k \in LimiterKeys |-> <<>>]]

(* user names of the register requests *)
NewNames == {"ann", "bob"}

(* no register request is in the session *)
NoRegister == [pc |-> "idle", username |-> None, role |-> None, code |-> 0]

AccountsAtRest ==
    /\ users = <<>>
    /\ regs = [h \in Slots |-> NoRegister]
    /\ welcomed = [username \in NewNames |-> 0]

(* no request has failed *)
NoErrors == [path |-> "none", runs |-> <<>>]

(* the users a login can find *)
Members == {"ann", "bob"}

(* no login request is being handled *)
NoSignin == [pc |-> "idle", service |-> "none", pending |-> <<>>,
             result |-> "none", done |-> 0]

LoginsAtRest ==
    /\ authlog = <<>>
    /\ login_count = [u \in Members |-> 0]
    /\ signin = NoSignin

(* CacheableService._get_cache_key: the method, the model's name and the
   keyword arguments (user_id and the year filter; None and NoYear where the
   call has none) *)
_get_cache_key(method, user_id, year) == <<method, "CropTarget", user_id, year>>

(* the keys of the dashboards a run asks for *)
DashboardKeys ==
    {_get_cache_key("vo_dashboard", "vo1", NoYear), _get_cache_key("bo_dashboard", None, NoYear)}

(* None where dashboard data is expected *)
NoData == [approved |-> 0, rejected |-> 0, generated_at |-> 0 - 1]

(* a key self.cache does not hold *)
NoEntry == [data |-> NoData, timestamp |-> 0 - 1]

(* no dashboard was asked for *)
NoDashboard == [n |-> 0, key |-> <<>>, data |-> NoData, success |-> FALSE, stale |-> FALSE]

DashboardAtRest ==
    /\ cache = [key \in DashboardKeys |-> NoEntry]
    /\ tally = [approved |-> 0, rejected |-> 0]
    /\ dclock = 0
    /\ served = NoDashboard

(* no connectivity check has been called *)
NoProbe == [pc |-> "idle", app |-> "None", retries |-> 0, delay |-> 0, attempt |-> 0,
            connects |-> 0, failures |-> 0, sleeps |-> 0, result |-> "none"]

ExtrasAtRest ==
    /\ LoginsAtRest
    /\ DashboardAtRest
    /\ probe = NoProbe

AsideAtRest ==
    /\ ExtrasAtRest
    /\ PagingAtRest
    /\ RetentionAtRest
    /\ LimiterAtRest
    /\ AccountsAtRest
    /\ errs = NoErrors

Init ==
    /\ impl \in Impls
    /\ records = IF impl = "server_new" THEN SeedRecords ELSE [id \in Ids |-> Absent]
    /\ audit = <<>>
    /\ req = [h \in Slots |-> Idle]
    /\ now = 0
    /\ resp = NoResponse
    /\ AsideAtRest

(* ------------------------------------------- server_new.py (FastAPI, ORM) *)

(* CropTargetService.create_crop_target: the unit of work of a create *)
create_crop_target(id, area, target_yield, submitter_id) ==
    Tx("create", submitter_id, id, "insert", Absent,
       calculate_metrics([NewRow("draft", submitter_id, NoTime, area)
                             EXCEPT !.target_yield = target_yield]),
       <<AuditEntry("CREATE", id, submitter_id)>>, 200)

(* an update that takes the row whether it is active or not *)
update_inactive_too(recs, id, area, user_id) ==
    LET db_obj == recs[id] IN
    IF db_obj.exists \notin {"yes", "inactive"} THEN Idle
    ELSE Tx("update", user_id, id, "update", db_obj,
            [db_obj EXCEPT !.target_area = area],
            <<AuditEntry("UPDATE", id, user_id)>>, 200)

(* BaseService.update: None when the row is missing *)
update(recs, id, area, user_id) ==
    LET db_obj == get(recs, id) IN
    IF db_obj.exists # "yes" THEN Idle
    ELSE Tx("update", user_id, id, "update", db_obj,
            [db_obj EXCEPT !.target_area = area],
            <<AuditEntry("UPDATE", id, user_id)>>, 200)

(* a submit that does not look at the status it finds *)
submit_for_approval_unguarded(recs, id, submitter_id, t) ==
    LET target == get(recs, id) IN
    IF target.exists # "yes" \/ target.submitted_by # submitter_id THEN Idle
    ELSE Tx("submit", submitter_id, id, "update", target,
            submit_for_approval_m(target, t),
            <<AuditEntry("SUBMIT", id, submitter_id)>>, 200)

(* CropTargetService.submit_for_approval *)
submit_for_approval(recs, id, submitter_id, t) ==
    LET target == get(recs, id) IN
    IF target.exists # "yes" \/ target.submitted_by # submitter_id THEN Idle
    ELSE IF target.status # "draft" THEN Idle
    ELSE Tx("submit", submitter_id, id, "update", target,
            submit_for_approval_m(target, t),
            <<AuditEntry("SUBMIT", id, submitter_id)>>, 200)

(* an approve that does not look at the status it finds *)
approve_target_unguarded(recs, id, approver_id, remarks, t) ==
    LET target == get(recs, id) IN
    IF target.exists # "yes" THEN Idle
    ELSE Tx("approve", approver_id, id, "update", target,
            approve(target, approver_id, remarks, t),
            <<AuditEntry("APPROVE", id, approver_id)>>, 200)

(* CropTargetService.approve_target *)
approve_target(recs, id, approver_id, remarks, t) ==
    LET target == get(recs, id) IN
    IF target.exists # "yes" \/ ~is_pending_approval(target) THEN Idle
    ELSE Tx("approve", approver_id, id, "update", target,
            approve(target, approver_id, remarks, t),
            <<AuditEntry("APPROVE", id, approver_id)>>, 200)

(* CropTargetService.reject_target *)
reject_target(recs, id, approver_id, reason, t) ==
    LET target == get(recs, id) IN
    IF target.exists # "yes" \/ ~is_pending_approval(target) THEN Idle
    ELSE Tx("reject", approver_id, id, "update", target,
            reject(target, approver_id, reason, t),
            <<AuditEntry("REJECT", id, approver_id)>>, 200)

(* POST /api/v1/vo/crop-targets *)
new_create_crop_target(h, u, area) ==
    /\ impl = "server_new"
    /\ Accepts(h)
    /\ IF ~require_role(Role(u), {"VO"})
       THEN Respond("create", 403, "Access denied", "role_denied")
       ELSE IF ~(area > 0)
       THEN Respond("create", 422, "validation error", "invalid_input")
       ELSE /\ FreeIds # {}
            /\ \E target_yield \in Yields :
                    Stage(h, create_crop_target(NextId, area, target_yield, u))

(* PUT /api/v1/vo/crop-targets/{target_id} *)
new_update_crop_target(h, u, id, area) ==
    /\ impl = "server_new"
    /\ Accepts(h)
    /\ IF ~require_role(Role(u), {"VO"})
       THEN Respond("update", 403, "Access denied", "role_denied")
       ELSE IF ~(area > 0)
       THEN Respond("update", 422, "validation error", "invalid_input")
       ELSE LET target == get(records, id) IN
            IF target.exists # "yes"
            THEN Respond("update", 404, "Crop target not found", "no_such_record")
            ELSE IF target.submitted_by # u
            THEN Respond("update", 404, "Crop target not found", "not_owner")
            ELSE IF ~is_editable(target)
            THEN Respond("update", 400, "Cannot edit submitted crop target", "not_editable")
            ELSE Stage(h, update(records, id, area, u))

(* POST /api/v1/vo/crop-targets/{target_id}/submit *)
new_submit_crop_target(h, u, id) ==
    /\ impl = "server_new"
    /\ Accepts(h)
    /\ IF ~require_role(Role(u), {"VO"})
       THEN Respond("submit", 403, "Access denied", "role_denied")
       ELSE LET tx == submit_for_approval(records, id, u, now + 1) IN
            IF tx.op = "idle"
            THEN Respond("submit", 404, "Crop target not found or cannot be submitted",
                         IF records[id].exists # "yes" THEN "no_such_record"
                         ELSE IF records[id].submitted_by # u THEN "not_owner"
                         ELSE "not_submittable")
            ELSE Stage(h, tx)

(* POST /api/v1/bo/crop-targets/{target_id}/approve *)
new_approve_crop_target(h, u, id, approval_data) ==
    LET action == approval_data.action
        remarks == approval_data.remarks
        reason == approval_data.rejection_reason IN
    /\ impl = "server_new"
    /\ Accepts(h)
    /\ IF ~require_role(Role(u), {"BO"})
       THEN Respond(action, 403, "Access denied", "role_denied")
       ELSE IF action \notin {"approve", "reject"}
       THEN Respond(action, 422, "validation error", "invalid_input")
       ELSE IF action = "reject" /\ ~Truthy(reason)
       THEN Respond("reject", 400, "Rejection reason is required", "reason_missing")
       ELSE LET tx == IF action = "approve"
                      THEN approve_target(records, id, u, remarks, now + 1)
                      ELSE reject_target(records, id, u, reason, now + 1) IN
            IF tx.op = "idle"
            THEN Respond(action, 404, "Crop target not found or not pending approval",
                         IF records[id].exists # "yes" THEN "no_such_record"
                         ELSE "not_pending")
            ELSE Stage(h, tx)

(* ------------------------------------------------- the end of a session *)

(* db.commit(): the changed columns and the audit rows are written together;
   an UPDATE that matches no row raises StaleDataError and nothing is kept *)
Stale(recs, tx) ==
    tx.kind = "update" /\ Dirty(tx) # {} /\ recs[tx.id].exists \in {"no", "deleted"}

CommitRecords(recs, tx) ==
    IF tx.kind = "insert" THEN [recs EXCEPT ![tx.id] = tx.new]
    ELSE IF tx.kind = "delete" THEN [recs EXCEPT ![tx.id] = Deleted]
    ELSE IF tx.kind = "deactivate" THEN [recs EXCEPT ![tx.id].exists = "inactive"]
    ELSE [recs EXCEPT ![tx.id] = Flush(@, tx)]

(* a commit that keeps only the session's own audit rows *)
CommitAuditReplacing(aud, tx) == tx.log

(* the audit rows AuditLog.log_action added to the session are inserted *)
CommitAudit(aud, tx) == aud \o tx.log

(* a rollback that undoes the audit rows but keeps the flushed record write *)
RollbackKeepsRecord(recs, aud, tx) == <<CommitRecords(recs, tx), aud>>

(* db.rollback(): the store is as it was before the session's writes *)
Rollback(recs, aud, tx) == <<recs, aud>>

Commit(h) ==
    /\ req[h].op # "idle"
    /\ IF Stale(records, req[h])
       THEN /\ records' = Rollback(records, audit, req[h])[1]
            /\ audit' = Rollback(records, audit, req[h])[2]
            /\ resp' = Response(req[h].op, 500, "Internal server error", "stale")
       ELSE /\ records' = CommitRecords(records, req[h])
            /\ audit' = CommitAudit(audit, req[h])
            /\ resp' = Response(req[h].op, req[h].ok, "", "committed")
    /\ req' = [req EXCEPT ![h] = Idle]
    /\ UNCHANGED <<impl, now>>
    /\ UNCHANGED aside

(* a storage failure after the handler changed the row and before the commit
   returns: the session is rolled back and closed *)
Fault(h) ==
    /\ req[h].op # "idle"
    /\ records' = Rollback(records, audit, req[h])[1]
    /\ audit' = Rollback(records, audit, req[h])[2]
    /\ resp' = Response(req[h].op, 500, "Internal server error", "storage_failure")
    /\ req' = [req EXCEPT ![h] = Idle]
    /\ UNCHANGED <<impl, now>>
    /\ UNCHANGED aside

(* ------------------------------------ vo/ and bo/ blueprints (Flask) *)

(* a lookup by id alone, whoever submitted the row *)
get_crop_target_by_id_any(recs, id, user_id) ==
    IF recs[id].exists = "yes" THEN recs[id] ELSE Absent

(* VOService.get_crop_target_by_id: the caller's own row or ValueError *)
get_crop_target_by_id(recs, id, user_id) ==
    IF recs[id].exists = "yes" /\ recs[id].submitted_by = user_id
    THEN recs[id] ELSE Absent

NotFoundBranch(recs, id) ==
    IF recs[id].exists # "yes" THEN "no_such_record" ELSE "not_owner"

(* VOService.create_crop_target *)
vo_create(id, area, status, user_id, t) ==
    Tx("create", user_id, id, "insert", Absent,
       NewRow(status, user_id, IF status = "submitted" THEN t ELSE NoTime, area),
       <<>>, 201)

(* VOService.update_crop_target *)
vo_update(recs, id, area, user_id) ==
    LET crop_target == get_crop_target_by_id(recs, id, user_id) IN
    IF crop_target.exists # "yes"
    THEN Raise("Crop target not found", NotFoundBranch(recs, id))
    ELSE IF ~can_edit(crop_target)
    THEN Raise("Cannot edit this crop target", "not_editable")
    ELSE Tx("update", user_id, id, "update", crop_target,
            [crop_target EXCEPT !.target_area = area,
                                !.rejection_reason =
                                    IF crop_target.status = "rejected" THEN None ELSE @],
            <<>>, 200)

(* VOService.resubmit_crop_target *)
vo_resubmit(recs, id, user_id, t) ==
    LET crop_target == get_crop_target_by_id(recs, id, user_id) IN
    IF crop_target.exists # "yes"
    THEN Raise("Crop target not found", NotFoundBranch(recs, id))
    ELSE IF crop_target.status \notin {"draft", "rejected"}
    THEN Raise("Cannot resubmit this crop target", "not_submittable")
    ELSE Tx("submit", user_id, id, "update", crop_target,
            [crop_target EXCEPT !.status = "submitted", !.submitted_at = t,
                                !.rejection_reason = None],
            <<>>, 200)

(* VOService.delete_crop_target *)
vo_delete(recs, id, user_id) ==
    LET crop_target == get_crop_target_by_id(recs, id, user_id) IN
    IF crop_target.exists # "yes"
    THEN Raise("Crop target not found", NotFoundBranch(recs, id))
    ELSE IF ~can_delete(crop_target)
    THEN Raise("Cannot delete this crop target", "not_deletable")
    ELSE Tx("delete", user_id, id, "delete", crop_target, crop_target, <<>>, 200)

(* BOApprovalSchema: OneOf on status and validate_rejection *)
BOApprovalSchema(data) ==
    /\ data.status \in {"approved", "rejected"}
    /\ ~(data.status = "rejected" /\ ~Truthy(data.rejection_comments))

(* BOService.approve_crop_target *)
bo_approve(recs, id, data, approver_id, t) ==
    LET crop_target == recs[id] IN
    IF crop_target.exists # "yes"
    THEN Raise("Crop target not found", "no_such_record")
    ELSE IF crop_target.status # "submitted"
    THEN Raise("Only submitted targets can be approved/rejected", "not_pending")
    ELSE IF data.status = "rejected" /\ ~Truthy(data.rejection_comments)
    THEN Raise("Rejection comments required when rejecting", "reason_missing")
    ELSE Tx(IF data.status = "approved" THEN "approve" ELSE "reject",
            approver_id, id, "update", crop_target,
            [crop_target EXCEPT !.status = data.status, !.approved_by = approver_id,
                                !.approved_at = t,
                                !.rejection_reason =
                                    IF data.status = "rejected"
                                    THEN data.rejection_comments ELSE None],
            <<>>, 200)

(* safe_execute around a service call: ValueError is answered with 400 *)
safe_execute(h, op, tx) ==
    IF tx.kind = "raise" THEN Respond(op, 400, tx.detail, tx.branch)
    ELSE Stage(h, tx)

(* POST /api/v1/vo/crop-targets *)
vo_create_crop_target(h, u, area, status) ==
    /\ impl = "flask"
    /\ Accepts(h)
    /\ IF ~require_role(Role(u), {"VO"})
       THEN Respond("create", 403, "Access denied", "role_denied")
       ELSE IF ~(area > 0 /\ status \in {"draft", "submitted"})
       THEN Respond("create", 400, "Invalid input data", "invalid_input")
       ELSE /\ FreeIds # {}
            /\ Stage(h, vo_create(NextId, area, status, u, now + 1))

(* PUT /api/v1/vo/crop-targets/<id> *)
vo_update_crop_target(h, u, id, area) ==
    /\ impl = "flask"
    /\ Accepts(h)
    /\ IF ~require_role(Role(u), {"VO"})
       THEN Respond("update", 403, "Access denied", "role_denied")
       ELSE IF ~(area > 0)
       THEN Respond("update", 400, "Invalid input data", "invalid_input")
       ELSE safe_execute(h, "update", vo_update(records, id, area, u))

(* POST /api/v1/vo/crop-targets/<id>/resubmit *)
vo_resubmit_crop_target(h, u, id) ==
    /\ impl = "flask"
    /\ Accepts(h)
    /\ IF ~require_role(Role(u), {"VO"})
       THEN Respond("submit", 403, "Access denied", "role_denied")
       ELSE safe_execute(h, "submit", vo_resubmit(records, id, u, now + 1))

(* DELETE /api/v1/vo/crop-targets/<id> *)
vo_delete_crop_target(h, u, id) ==
    /\ impl = "flask"
    /\ Accepts(h)
    /\ IF ~require_role(Role(u), {"VO"})
       THEN Respond("delete", 403, "Access denied", "role_denied")
       ELSE safe_execute(h, "delete", vo_delete(records, id, u))

(* PUT /api/v1/bo/crop-targets/<id>/approve *)
bo_approve_crop_target(h, u, id, data) ==
    LET op == IF data.status = "rejected" THEN "reject" ELSE "approve" IN
    /\ impl = "flask"
    /\ Accepts(h)
    /\ IF ~require_role(Role(u), {"BO"})
       THEN Respond(op, 403, "Access denied", "role_denied")
       ELSE IF ~BOApprovalSchema(data)
       THEN Respond(op, 400, "Invalid input data",
                    IF data.status = "rejected" THEN "reason_missing" ELSE "invalid_input")
       ELSE safe_execute(h, op, bo_approve(records, id, data, u, now + 1))

(* GET /api/v1/vo/crop-targets/<id> *)
vo_get_crop_target(h, u, id) ==
    /\ impl = "flask"
    /\ Accepts(h)
    /\ IF ~require_role(Role(u), {"VO"})
       THEN Respond("get", 403, "Access denied", "role_denied")
       ELSE IF get_crop_target_by_id(records, id, u).exists # "yes"
       THEN Respond("get", 400, "Crop target not found", NotFoundBranch(records, id))
       ELSE Return("get", {id})

(* a query that returns every row, whoever submitted it *)
get_my_submissions_query_all(recs, user_id, status) ==
    {id \in Ids : recs[id].exists = "yes"}

(* VOService.get_my_submissions_query: the caller's rows, filtered *)
get_my_submissions_query(recs, user_id, status) ==
    {id \in Ids : /\ recs[id].exists = "yes"
                  /\ recs[id].submitted_by = user_id
                  /\ (Truthy(status) => recs[id].status = status)}

(* BOService.get_pending_query *)
get_pending_query(recs) ==
    {id \in Ids : recs[id].exists = "yes" /\ recs[id].status = "submitted"}

(* GET /api/v1/vo/crop-targets/my-submissions *)
vo_get_my_submissions(h, u, status) ==
    /\ impl = "flask"
    /\ Accepts(h)
    /\ IF ~require_role(Role(u), {"VO"})
       THEN Respond("list_own", 403, "Access denied", "role_denied")
       ELSE Return("list_own", get_my_submissions_query(records, u, status))

(* GET /api/v1/bo/crop-targets/pending *)
bo_get_pending_approvals(h, u) ==
    /\ impl = "flask"
    /\ Accepts(h)
    /\ IF ~require_role(Role(u), {"BO"})
       THEN Respond("list_pending", 403, "Access denied", "role_denied")
       ELSE Return("list_pending", get_pending_query(records))

(* ---------------------------------------- server_new.py: the list routes *)

(* CropTargetService.get_by_submitter: the submitter's active rows, filtered *)
get_by_submitter(recs, submitter_id, status) ==
    {id \in Ids : /\ recs[id].exists = "yes"
                  /\ recs[id].submitted_by = submitter_id
                  /\ (Truthy(status) => recs[id].status = status)}

(* CropTargetService.get_pending_approvals *)
get_pending_approvals(recs) ==
    {id \in Ids : recs[id].exists = "yes" /\ recs[id].status \in {"submitted", "pending"}}

(* GET /api/v1/vo/crop-targets/my-submissions *)
new_get_my_submissions(h, u, status) ==
    /\ impl = "server_new"
    /\ Accepts(h)
    /\ IF ~require_role(Role(u), {"VO"})
       THEN Respond("list_own", 403, "Access denied", "role_denied")
       ELSE Return("list_own", get_by_submitter(records, u, status))

(* GET /api/v1/bo/crop-targets/pending *)
new_get_pending_approvals(h, u) ==
    /\ impl = "server_new"
    /\ Accepts(h)
    /\ IF ~require_role(Role(u), {"BO"})
       THEN Respond("list_pending", 403, "Access denied", "role_denied")
       ELSE Return("list_pending", get_pending_approvals(records))

(* ------------------------------------------------------------ server.py *)

(* POST /api/v1/vo/crop-targets: stored as submitted at once *)
srv_create_crop_target(h, u, area) ==
    /\ impl = "server"
    /\ Accepts(h)
    /\ IF ~require_role(Role(u), {"VO"})
       THEN Respond("create", 403, "Insufficient permissions", "role_denied")
       ELSE /\ FreeIds # {}
            /\ Stage(h, Tx("create", u, NextId, "insert", Absent,
                           NewRow("submitted", u, now + 1, area), <<>>, 200))

(* ------------------------------------------------------- specifications *)
(* the inputs a request of caller u to an endpoint of `role` is tried with: the
   role check comes first and reads none of them, so for a caller it turns
   away one input stands for all *)
For(u, role, S) == IF Role(u) = role THEN S ELSE {CHOOSE x \in S : TRUE}

StepOf(h) ==
    \/ \E u \in Users : \E area \in For(u, "VO", CreateAreas) :
            new_create_crop_target(h, u, area)
    \/ \E u \in Users : \E id \in For(u, "VO", Ids), area \in For(u, "VO", Areas) :
            new_update_crop_target(h, u, id, area)
    \/ \E u \in Users : \E id \in For(u, "VO", Ids) : new_submit_crop_target(h, u, id)
    \/ \E u \in Users : \E id \in For(u, "BO", Ids),
                             approval_data \in For(u, "BO", ApprovalRequests) :
            new_approve_crop_target(h, u, id, approval_data)
    \/ \E u \in Users : \E status \in For(u, "VO", StatusFilters) :
            new_get_my_submissions(h, u, status)
    \/ \E u \in Users : new_get_pending_approvals(h, u)
    \/ \E u \in Users : \E area \in For(u, "VO", CreateAreas),
                             status \in For(u, "VO", CreateStatuses) :
            vo_create_crop_target(h, u, area, status)
    \/ \E u \in Users : \E id \in For(u, "VO", Ids), area \in For(u, "VO", Areas) :
            vo_update_crop_target(h, u, id, area)
    \/ \E u \in Users : \E id \in For(u, "VO", Ids) : vo_resubmit_crop_target(h, u, id)
    \/ \E u \in Users : \E id \in For(u, "VO", Ids) : vo_delete_crop_target(h, u, id)
    \/ \E u \in Users : \E id \in For(u, "BO", Ids), data \in For(u, "BO", ApprovalActions) :
            bo_approve_crop_target(h, u, id, data)
    \/ \E u \in Users : \E id \in For(u, "VO", Ids) : vo_get_crop_target(h, u, id)
    \/ \E u \in Users : \E status \in For(u, "VO", StatusFilters) :
            vo_get_my_submissions(h, u, status)
    \/ \E u \in Users : bo_get_pending_approvals(h, u)
    \/ \E u \in Users : \E area \in For(u, "VO", CreateAreas) :
            srv_create_crop_target(h, u, area)
    \/ Commit(h)
    \/ Fault(h)

(* requests handled one after the other *)
Next == StepOf(1) \/ Deliver

Spec == Init /\ [][Next]_vars
(* requests handled at once: a session reads while another has not committed.
   The callers hold the role of the endpoint and send well-formed bodies. *)
VOs == {u \in Users : Role(u) = "VO"}
BOs == {u \in Users : Role(u) = "BO"}

ConcStepOf(h) ==
    \/ \E u \in VOs, area \in CreateAreas \ {0} : new_create_crop_target(h, u, area)
    \/ \E u \in VOs, id \in Ids, area \in Areas \ {0} : new_update_crop_target(h, u, id, area)
    \/ \E u \in VOs, id \in Ids : new_submit_crop_target(h, u, id)
    \/ \E u \in BOs, id \in Ids :
         \E approval_data \in {d \in ApprovalRequests : d.action # "hold"} :
            new_approve_crop_target(h, u, id, approval_data)
    \/ \E u \in VOs, area \in CreateAreas \ {0}, status \in {"draft", "submitted"} :
            vo_create_crop_target(h, u, area, status)
    \/ \E u \in VOs, id \in Ids, area \in Areas \ {0} : vo_update_crop_target(h, u, id, area)
    \/ \E u \in VOs, id \in Ids : vo_resubmit_crop_target(h, u, id)
    \/ \E u \in VOs, id \in Ids : vo_delete_crop_target(h, u, id)
    \/ \E u \in BOs, id \in Ids :
         \E data \in {d \in ApprovalActions : d.status # "held"} :
            bo_approve_crop_target(h, u, id, data)
    \/ \E u \in VOs, area \in CreateAreas \ {0} : srv_create_crop_target(h, u, area)
    \/ Commit(h)

ConcNext == (\E h \in Slots : ConcStepOf(h)) \/ Deliver

ConcSpec == Init /\ [][ConcNext]_vars

(* the approver-role surface over a table that holds one row awaiting
   approval, stored under either of the two names of that state: init_database()
   stores 'pending', the handlers store 'submitted' (status is a free String(20)
   column) *)
AwaitingStore(status) ==
    [id \in Ids |->
        IF id = 0
        THEN calculate_metrics([NewRow(status, "vo1", NoTime, 2) EXCEPT !.target_yield = 2])
        ELSE Absent]

ReviewInit ==
    /\ impl \in {"server_new", "flask"}
    /\ records \in {AwaitingStore(status) : status \in {"submitted", "pending"}}
    /\ audit = <<>>
    /\ req = [h \in Slots |-> Idle]
    /\ now = 0
    /\ resp = NoResponse
    /\ AsideAtRest

ReviewNext ==
    \/ \E u \in BOs, id \in Ids :
         \E approval_data \in {d \in ApprovalRequests : d.action # "hold"} :
            new_approve_crop_target(1, u, id, approval_data)
    \/ \E u \in BOs : new_get_pending_approvals(1, u)
    \/ \E u \in BOs, id \in Ids :
         \E data \in {d \in ApprovalActions : d.status # "held"} :
            bo_approve_crop_target(1, u, id, data)
    \/ \E u \in BOs : bo_get_pending_approvals(1, u)
    \/ Commit(1)
    \/ Deliver

ReviewSpec == ReviewInit /\ [][ReviewNext]_vars

(* ------------------------------------------------------ the paged lists *)
(* rows of a table whose sort keys may coincide *)
MaxRows == 3
(* the values the sort key (created_at, submitted_at) of such a row takes *)
MaxStamp == 2
(* limit: int = 100 of get_by_submitter, get_pending_approvals and get_all *)
DefaultLimit == 100
(* per_page of a request: Query(20, ge=1, le=100) *)
PerPages == {1, 2, 4, 100}

ListKinds == {"get_my_submissions", "get_pending_approvals", "get_paginated"}

Min(a, b) == IF a < b THEN a ELSE b

(* the rows a list's filter matches, as their sort keys from the newest on (row
   i is the i-th of them).  Small tables, where rows can share a key (now() is
   the same for all rows of one transaction), and tables around the default
   limit with a key per row. *)
Tables ==
    UNION {{t \in [1..n -> 1..MaxStamp] : \A i \in 1..(n - 1) : t[i] >= t[i + 1]}
                : n \in 0..MaxRows}
    \cup {[i \in 1..n |-> n + 1 - i]
                : n \in {DefaultLimit - 1, DefaultLimit, DefaultLimit + 1}}

(* ORDER BY key DESC: the orders the database may return the rows in; rows
   with equal keys come in any order, which may differ from query to query *)
order_by(t) ==
    IF \A i \in 1..(Len(t) - 1) : t[i] > t[i + 1]
    THEN {[i \in 1..Len(t) |-> i]}
    ELSE {o \in Permutations(1..Len(t)) :
                \A i, j \in 1..Len(t) : i < j => t[o[i]] >= t[o[j]]}

(* query.offset(skip).limit(limit).all() *)
offset_limit(o, skip, limit) == SubSeq(o, skip + 1, Min(skip + limit, Len(o)))

(* the pagination block of the list routes of server_new.py: total is the
   length of a second call of the service, made without skip and limit *)
route_page(o, all, page, per_page) ==
    LET total == Len(offset_limit(all, 0, DefaultLimit)) IN
    [items |-> offset_limit(o, (page - 1) * per_page, per_page),
     total |-> total,
     pages |-> (total + per_page - 1) \div per_page]

(* BaseService.get_paginated: total is count() *)
get_paginated(o, page, per_page) ==
    LET total == Len(o) IN
    [items |-> offset_limit(o, (page - 1) * per_page, per_page),
     total |-> total,
     pages |-> (total + per_page - 1) \div per_page]

(* the client's bookkeeping of a walk: the page's items are added to those
   seen; the walk ends with the first page that brings nothing *)
Turn(result) ==
    LET over == result.items = <<>> IN
    /\ walk' = [walk EXCEPT !.page = @ + 1, !.seen = @ \o result.items,
                            !.total = result.total, !.pages = result.pages,
                            !.done = over]
    /\ counts' = IF over THEN [counts EXCEPT ![walk.per_page] = Len(walk.seen)]
                         ELSE counts
    /\ UNCHANGED <<workflow, extras, rows, retention, limiter, accounts, errs>>

(* GET /api/v1/vo/crop-targets/my-submissions?page=&per_page= *)
get_my_submissions_page ==
    /\ walk.via = "get_my_submissions" /\ ~walk.done
    /\ \E o \in order_by(rows), all \in order_by(rows) :
            Turn(route_page(o, all, walk.page, walk.per_page))

(* GET /api/v1/bo/crop-targets/pending?page=&per_page= *)
get_pending_approvals_page ==
    /\ walk.via = "get_pending_approvals" /\ ~walk.done
    /\ \E o \in order_by(rows), all \in order_by(rows) :
            Turn(route_page(o, all, walk.page, walk.per_page))

(* BaseService.get_paginated(page, per_page) *)
get_paginated_page ==
    /\ walk.via = "get_paginated" /\ ~walk.done
    /\ \E o \in order_by(rows) : Turn(get_paginated(o, walk.page, walk.per_page))

(* the client starts to list with a page size it has not listed with *)
StartWalk(per_page) ==
    /\ walk.done
    /\ counts[per_page] < 0
    /\ walk' = [NoWalk EXCEPT !.via = walk.via, !.per_page = per_page,
                              !.page = 1, !.done = FALSE]
    /\ UNCHANGED <<workflow, extras, rows, counts, retention, limiter, accounts, errs>>

ListInit ==
    /\ impl = "server_new"
    /\ records = [id \in Ids |-> Absent]
    /\ audit = <<>>
    /\ req = [h \in Slots |-> Idle]
    /\ now = 0
    /\ resp = NoResponse
    /\ rows \in Tables
    /\ walk \in {[NoWalk EXCEPT !.via = via] : via \in ListKinds}
    /\ counts = [per_page \in PerPages |-> 0 - 1]
    /\ RetentionAtRest
    /\ LimiterAtRest
    /\ AccountsAtRest
    /\ ExtrasAtRest
    /\ errs = NoErrors

ListNext ==
    \/ \E per_page \in PerPages : StartWalk(per_page)
    \/ get_my_submissions_page
    \/ get_pending_approvals_page
    \/ get_paginated_page

ListSpec == ListInit /\ [][ListNext]_vars

(* ---------------------------------------------------------------- claims *)

(* the store and the open sessions are as they were *)
NothingChanged == UNCHANGED <<records, audit, req>>

(* C1: when an approve call commits on a record that another approver's call
   has approved since this call read it, the call does not succeed and the
   persisted status, approved_by and approved_at stay those of the first call:
   of two approve calls in progress at once exactly one succeeds. *)
C1_OneApproveSucceeds ==
    [][\A h \in Slots :
        (Commit(h) /\ req[h].op = "approve"
                   /\ records[req[h].id].status = "approved")
            => (resp'.code # 200 /\ records' = records)]_vars

(* C2: an approve and a reject racing on one record never leave a mix of the
   two decisions: a record whose status is approved has no rejection reason. *)
C2_NoMixedDecision ==
    \A id \in Ids :
        (records[id].exists = "yes" /\ records[id].status = "approved")
            => records[id].rejection_reason = None

Edges ==
    {<<"draft", "submitted">>, <<"submitted", "approved">>, <<"pending", "approved">>,
     <<"submitted", "rejected">>, <<"pending", "rejected">>, <<"rejected", "submitted">>}

(* C3: every change of a record's status follows an edge of the workflow
   graph; in particular approved is never left and draft never goes straight
   to approved. *)
C3_TransitionGraph ==
    [][\A id \in Ids :
        (records[id].exists = "yes" /\ records'[id].exists = "yes"
            /\ records'[id].status # records[id].status)
            => <<records[id].status, records'[id].status>> \in Edges]_vars

AuditAction(op) ==
    CASE op = "create" -> "CREATE" [] op = "update" -> "UPDATE"
      [] op = "submit" -> "SUBMIT" [] op = "approve" -> "APPROVE"
      [] op = "reject" -> "REJECT" [] OTHER -> "NONE"

(* C4: every successful create, update, submit, approve or reject adds exactly
   one audit entry of its kind for its record, whichever implementation
   handles the call. *)
C4_OneAuditEntryPerOperation ==
    [][\A h \in Slots :
        (Commit(h) /\ resp'.branch = "committed"
                   /\ req[h].op \in {"create", "update", "submit", "approve", "reject"})
            => audit' = Append(audit, AuditEntry(AuditAction(req[h].op), req[h].id,
                                                 req[h].caller))]_vars

(* C5: a storage failure between a handler's change of the record and the end
   of its commit leaves neither the record change nor the audit entry in the
   store. *)
C5_FailureRollsBackBoth ==
    [][\A h \in Slots : Fault(h) => (records' = records /\ audit' = audit)]_vars

C5_Witness ==
    /\ resp.branch = "storage_failure"
    /\ resp.op = "approve"
    /\ impl = "server_new"
    /\ records[0].status = "pending"

(* the requests of caller u to the submitter-role surface *)
VOEndpoint(h, u) ==
    \/ \E area \in For(u, "VO", CreateAreas) : new_create_crop_target(h, u, area)
    \/ \E id \in For(u, "VO", Ids), area \in For(u, "VO", Areas) :
            new_update_crop_target(h, u, id, area)
    \/ \E id \in For(u, "VO", Ids) : new_submit_crop_target(h, u, id)
    \/ \E status \in For(u, "VO", StatusFilters) : new_get_my_submissions(h, u, status)
    \/ \E area \in For(u, "VO", CreateAreas), status \in For(u, "VO", CreateStatuses) :
            vo_create_crop_target(h, u, area, status)
    \/ \E id \in For(u, "VO", Ids), area \in For(u, "VO", Areas) :
            vo_update_crop_target(h, u, id, area)
    \/ \E id \in For(u, "VO", Ids) : vo_resubmit_crop_target(h, u, id)
    \/ \E id \in For(u, "VO", Ids) : vo_delete_crop_target(h, u, id)
    \/ \E id \in For(u, "VO", Ids) : vo_get_crop_target(h, u, id)
    \/ \E status \in For(u, "VO", StatusFilters) : vo_get_my_submissions(h, u, status)
    \/ \E area \in For(u, "VO", CreateAreas) : srv_create_crop_target(h, u, area)

(* the requests of caller u to the approver-role surface *)
BOEndpoint(h, u) ==
    \/ \E id \in For(u, "BO", Ids), approval_data \in For(u, "BO", ApprovalRequests) :
            new_approve_crop_target(h, u, id, approval_data)
    \/ new_get_pending_approvals(h, u)
    \/ \E id \in For(u, "BO", Ids), data \in For(u, "BO", ApprovalActions) :
            bo_approve_crop_target(h, u, id, data)
    \/ bo_get_pending_approvals(h, u)

(* C6: a request to the submitter-role surface by a caller whose role is not
   VO, and a request to the approver-role surface by a caller whose role is not
   BO, is answered 403 and changes neither the records nor the audit log. *)
C6_RoleGate ==
    [][\A h \in Slots :
        /\ \A u \in Users \ VOs :
                VOEndpoint(h, u) => (resp'.code = 403 /\ NothingChanged)
        /\ \A u \in Users \ BOs :
                BOEndpoint(h, u) => (resp'.code = 403 /\ NothingChanged)]_vars

C6_Witness ==
    /\ resp.code = 403
    /\ resp.op = "update"
    /\ \E id \in Ids : records[id].exists = "yes" /\ records[id].status = "draft"

(* the answer to an update or delete of an id that is not in the store *)
NotFound == [code |-> IF impl = "flask" THEN 400 ELSE 404, detail |-> "Crop target not found"]

(* an update or delete request of submitter u for record id *)
UpdateOrDelete(h, u, id) ==
    \/ \E area \in Areas \ {0} : new_update_crop_target(h, u, id, area)
    \/ \E area \in Areas \ {0} : vo_update_crop_target(h, u, id, area)
    \/ vo_delete_crop_target(h, u, id)

(* C7: a submitter's update or delete of another submitter's record is
   answered exactly as one of an id that does not exist (not found, never 403)
   and leaves the record unchanged. *)
C7_ForeignRecordNotFound ==
    [][\A h \in Slots, u \in VOs, id \in Ids :
        ((records[id].exists # "yes" \/ records[id].submitted_by # u)
            /\ UpdateOrDelete(h, u, id))
            => /\ resp'.code = NotFound.code
               /\ resp'.detail = NotFound.detail
               /\ resp'.code # 403
               /\ NothingChanged]_vars

C7_Witness ==
    /\ resp.branch = "not_owner"
    /\ resp.op \in {"update", "delete"}
    /\ resp.code = NotFound.code

(* a reject request of approver u for record id with the given reason *)
RejectCall(h, u, id, reason) ==
    \/ new_approve_crop_target(h, u, id,
            [action |-> "reject", remarks |-> None, rejection_reason |-> reason])
    \/ bo_approve_crop_target(h, u, id,
            [status |-> "rejected", rejection_comments |-> reason])

(* C8: a reject whose reason is absent, empty or only whitespace fails as a
   validation error and changes nothing. *)
C8_BlankReasonRejected ==
    [][\A h \in Slots, u \in BOs, id \in Ids, reason \in Reasons :
        (RejectCall(h, u, id, reason) /\ IsBlank(reason))
            => (resp'.code \in {400, 422} /\ NothingChanged)]_vars

(* a submit (resubmit) request of submitter u for record id *)
SubmitCall(h, u, id) ==
    \/ new_submit_crop_target(h, u, id)
    \/ vo_resubmit_crop_target(h, u, id)

(* C9: a submit by the record's submitter goes through exactly when the status
   is draft or rejected, and then writes status submitted, a submission time
   and a null rejection reason; for any other status it fails and changes
   nothing. *)
C9_SubmitFromDraftOrRejected ==
    [][\A h \in Slots, u \in VOs, id \in Ids :
        (SubmitCall(h, u, id) /\ records[id].exists = "yes"
                              /\ records[id].submitted_by = u)
            => IF records[id].status \in {"draft", "rejected"}
               THEN /\ req'[h].op = "submit"
                    /\ req'[h].new.status = "submitted"
                    /\ req'[h].new.submitted_at # NoTime
                    /\ req'[h].new.rejection_reason = None
               ELSE resp'.code >= 400 /\ NothingChanged]_vars

(* an update request of submitter u for record id *)
UpdateCall(h, u, id) ==
    \/ \E area \in Areas : new_update_crop_target(h, u, id, area)
    \/ \E area \in Areas : vo_update_crop_target(h, u, id, area)

(* C10: an update of a record whose status is not draft fails and changes no
   field of the record. *)
C10_EditableOnlyWhileDraft ==
    [][\A h \in Slots, u \in Users, id \in Ids :
        (UpdateCall(h, u, id) /\ records[id].exists = "yes"
                              /\ records[id].status # "draft")
            => (resp'.code >= 400 /\ NothingChanged)]_vars

(* a well-formed update request of submitter u for record id *)
ValidUpdateCall(h, u, id) ==
    \/ \E area \in Areas \ {0} : new_update_crop_target(h, u, id, area)
    \/ \E area \in Areas \ {0} : vo_update_crop_target(h, u, id, area)

(* C11: a reject with reason r leaves the record rejected with exactly r as its
   rejection reason; on a rejected record an update by its submitter goes
   through, and so does a submit by its submitter, which writes status
   submitted and a null rejection reason. *)
C11_RejectEditResubmit ==
    [][\A h \in Slots :
        /\ (Commit(h) /\ req[h].op = "reject" /\ resp'.branch = "committed")
                => /\ records'[req[h].id].status = "rejected"
                   /\ records'[req[h].id].rejection_reason = req[h].new.rejection_reason
        /\ \A u \in VOs, id \in Ids :
                (records[id].exists = "yes" /\ records[id].submitted_by = u
                                           /\ records[id].status = "rejected")
                    => /\ ValidUpdateCall(h, u, id) => req'[h].op = "update"
                       /\ SubmitCall(h, u, id)
                            => /\ req'[h].op = "submit"
                               /\ req'[h].new.status = "submitted"
                               /\ req'[h].new.rejection_reason = None]_vars

(* C12: a submit of a record that is already submitted fails and leaves the
   record's status, its submission time and the audit log as they were. *)
C12_RetriedSubmitIsNoOp ==
    [][\A h \in Slots, u \in VOs, id \in Ids :
        (records[id].exists = "yes" /\ records[id].submitted_by = u
            /\ records[id].status = "submitted" /\ SubmitCall(h, u, id))
            => (resp'.code >= 400 /\ NothingChanged)]_vars

C12_Witness ==
    /\ resp.op = "submit"
    /\ resp.branch = "not_submittable"
    /\ \E id \in Ids : /\ records[id].status = "submitted"
                        /\ records[id].submitted_at # NoTime

(* C13: an update and a submit in progress at once on one draft serialize: an
   update that read the record as a draft does not change it once the submit
   has committed. *)
C13_UpdateSubmitSerialize ==
    [][\A h \in Slots :
        (Commit(h) /\ req[h].op = "update" /\ req[h].snap.status = "draft"
                   /\ records[req[h].id].status = "submitted")
            => records'[req[h].id] = records[req[h].id]]_vars

(* C14: when a create or an update of a record that has a target_yield
   commits, the record's expected_production is target_area * target_yield of
   the values it then holds. *)
C14_ExpectedProductionFollows ==
    [][\A h \in Slots :
        (Commit(h) /\ resp'.branch = "committed" /\ req[h].op \in {"create", "update"}
                   /\ records'[req[h].id].target_yield # NoValue)
            => records'[req[h].id].expected_production
                    = records'[req[h].id].target_area * records'[req[h].id].target_yield]_vars

(* C15: in every state a record has a rejection reason exactly when its status
   is rejected. *)
C15_ReasonIffRejected ==
    \A id \in Ids :
        records[id].exists = "yes"
            => (records[id].rejection_reason # None <=> records[id].status = "rejected")

(* C16: in every state, from the seeded store on, approved_by and approved_at
   of a record are both null or both set: both null while the record has not
   been decided (draft, pending) and both set once it was approved or
   rejected. *)
C16_ApproverFieldsTogether ==
    \A id \in Ids :
        records[id].exists = "yes"
            => /\ (records[id].approved_by = None <=> records[id].approved_at = NoTime)
               /\ records[id].status \in {"draft", "pending"}
                    => records[id].approved_by = None
               /\ records[id].status \in {"approved", "rejected"}
                    => records[id].approved_by # None

(* C17: submitted_by is the creating caller when a create commits, and no
   later step (update, submit or resubmit, approve, reject) changes the
   submitted_by of a stored record. *)
C17_SubmitterFixed ==
    [][/\ \A h \in Slots :
            (Commit(h) /\ req[h].op = "create" /\ resp'.branch = "committed")
                => records'[req[h].id].submitted_by = req[h].caller
       /\ \A id \in Ids :
            (records[id].exists = "yes" /\ records'[id].exists = "yes")
                => records'[id].submitted_by = records[id].submitted_by]_vars

C17_Witness ==
    \E id \in Ids \ SeedIds :
        /\ records[id].exists = "yes"
        /\ records[id].submitted_by = "vo2"
        /\ records[id].approved_by # None

(* a well-formed approve or reject request of approver u for record id *)
DecisionCall(h, u, id) ==
    \/ \E approval_data \in ApprovalRequests :
            /\ approval_data.action # "hold"
            /\ approval_data.action = "reject" => Truthy(approval_data.rejection_reason)
            /\ new_approve_crop_target(h, u, id, approval_data)
    \/ \E data \in ApprovalActions :
            /\ BOApprovalSchema(data)
            /\ bo_approve_crop_target(h, u, id, data)

(* a list-pending request of approver u *)
ListPendingCall(h, u) ==
    new_get_pending_approvals(h, u) \/ bo_get_pending_approvals(h, u)

(* C18: a record whose status is pending is treated as one whose status is
   submitted: an approve or reject of it goes through and list-pending returns
   it, in each implementation. *)
C18_PendingIsSubmitted ==
    [][\A h \in Slots, u \in BOs, id \in Ids :
        (records[id].exists = "yes" /\ records[id].status \in {"submitted", "pending"})
            => /\ DecisionCall(h, u, id) => req'[h].op \in {"approve", "reject"}
               /\ ListPendingCall(h, u) => id \in resp'.items]_vars

(* a list-own or get-by-id request of submitter u *)
OwnReadCall(h, u) ==
    \/ \E status \in StatusFilters : new_get_my_submissions(h, u, status)
    \/ \E status \in StatusFilters : vo_get_my_submissions(h, u, status)
    \/ \E id \in Ids : vo_get_crop_target(h, u, id)

(* C19: every record a list-own or get-by-id request returns to a submitter
   was submitted by that submitter, whatever the filter. *)
C19_OwnRecordsOnly ==
    [][\A h \in Slots, u \in VOs :
        OwnReadCall(h, u)
            => \A id \in resp'.items : records[id].submitted_by = u]_vars

C19_Witness ==
    /\ resp.op = "list_own"
    /\ resp.items # {}
    /\ \E id \in Ids \ resp.items :
            /\ records[id].exists = "yes"
            /\ \A o \in resp.items : records[o].submitted_by # records[id].submitted_by

(* C20: every stored record has a strictly positive target_area, and a
   target_yield that is absent or positive. *)
C20_PositiveNumbers ==
    \A id \in Ids :
        records[id].exists = "yes"
            => (records[id].target_area > 0 /\ records[id].target_yield >= 0)

(* ------------------------------------------------- audit log retention *)
(* days the clock of a run advances *)
MaxDay == 3
(* rows the table holds at most *)
MaxTrail == 3
(* retention_days of a cleanup call (365 when left out), in days of the run *)
RetentionDays == {1, 2}

(* AuditLog.create_log: the row of an action; business_context carries
   deleted_count for a cleanup and nothing otherwise *)
create_log(action, resource_type, deleted_count, t) ==
    [action |-> action, resource_type |-> resource_type,
     deleted_count |-> deleted_count, timestamp |-> t]

(* AuditLog.timestamp < cutoff_date *)
Expired(tr, cutoff) == {i \in 1..Len(tr) : tr[i].timestamp < cutoff}

Fresh(e, cutoff) == ~(e.timestamp < cutoff)

(* a delete that also takes the rows stamped at the cutoff *)
delete_through_cutoff(tr, cutoff) == SelectSeq(tr, LAMBDA e : e.timestamp > cutoff)

(* query.filter(AuditLog.timestamp < cutoff_date).delete() *)
delete(tr, cutoff) == SelectSeq(tr, LAMBDA e : Fresh(e, cutoff))

(* AuditService.log_user_action: an action of a user is logged *)
log_user_action ==
    /\ Len(trail) < MaxTrail
    /\ trail' = Append(trail, create_log("LOGIN", "user", 0 - 1, today))
    /\ UNCHANGED <<workflow, extras, paging, limiter, accounts, errs, sweep, today>>

(* a day passes *)
Tick ==
    /\ today < MaxDay
    /\ today' = today + 1
    /\ UNCHANGED <<workflow, extras, paging, limiter, accounts, errs, trail, sweep>>

(* cleanup_old_logs(retention_days): the cutoff is taken from the clock *)
cleanup_old_logs(retention_days) ==
    /\ sweep.pc = "idle"
    /\ sweep' = [pc |-> "count", cutoff |-> today - retention_days,
                 deleted_count |-> 0, result |-> "none"]
    /\ UNCHANGED <<workflow, extras, paging, limiter, accounts, errs, trail, today>>

(* logs_to_delete = ...count(); with none to delete the call returns success *)
cleanup_count ==
    /\ sweep.pc = "count"
    /\ sweep' = IF Expired(trail, sweep.cutoff) = {}
                THEN [sweep EXCEPT !.pc = "idle", !.result = "success"]
                ELSE [sweep EXCEPT !.pc = "delete"]
    /\ UNCHANGED <<workflow, extras, paging, limiter, accounts, errs, trail, today>>

(* deleted_count = ...delete(); self.db.commit() *)
cleanup_delete ==
    /\ sweep.pc = "delete"
    /\ trail' = delete(trail, sweep.cutoff)
    /\ sweep' = [sweep EXCEPT !.pc = "log",
                              !.deleted_count = Cardinality(Expired(trail, sweep.cutoff))]
    /\ UNCHANGED <<workflow, extras, paging, limiter, accounts, errs, today>>

(* cleanup_log = AuditLog.create_log(...); add; commit; return success *)
cleanup_log ==
    /\ sweep.pc = "log"
    /\ trail' = Append(trail, create_log("DELETE", "audit_log", sweep.deleted_count, today))
    /\ sweep' = [sweep EXCEPT !.pc = "idle", !.result = "success"]
    /\ UNCHANGED <<workflow, extras, paging, limiter, accounts, errs, today>>

(* except Exception: a commit of the cleanup fails, the call returns
   error_result and what was not committed is lost *)
cleanup_except ==
    /\ sweep.pc \in {"delete", "log"}
    /\ sweep' = [sweep EXCEPT !.pc = "idle", !.result = "error"]
    /\ UNCHANGED <<workflow, extras, paging, limiter, accounts, errs, trail, today>>

RetentionInit ==
    /\ impl = "server_new"
    /\ records = [id \in Ids |-> Absent]
    /\ audit = <<>>
    /\ req = [h \in Slots |-> Idle]
    /\ now = 0
    /\ resp = NoResponse
    /\ PagingAtRest
    /\ RetentionAtRest
    /\ LimiterAtRest
    /\ AccountsAtRest
    /\ ExtrasAtRest
    /\ errs = NoErrors

RetentionNext ==
    \/ log_user_action
    \/ Tick
    \/ \E retention_days \in RetentionDays : cleanup_old_logs(retention_days)
    \/ cleanup_count
    \/ cleanup_delete
    \/ cleanup_log
    \/ cleanup_except

RetentionSpec == RetentionInit /\ [][RetentionNext]_vars

(* ------------------------------------------------------ the rate limiter *)
(* seconds the clock of a run advances *)
MaxClock == 3

(* current_app.config, with the windows and limits in units of the run
   (app/config.py: 10 per 900 s for a login, 20 per 3600 s for a registration) *)
conf ==
    [LOGIN_RATE_LIMIT_PER_IP |-> 2, LOGIN_RATE_LIMIT_PER_USER |-> 2,
     LOGIN_RATE_LIMIT_WINDOW_SEC |-> 2,
     REGISTER_RATE_LIMIT_PER_IP |-> 2, REGISTER_RATE_LIMIT_WINDOW_SEC |-> 2]

window_sec(l) ==
    IF l = "_register_hits" THEN conf.REGISTER_RATE_LIMIT_WINDOW_SEC
    ELSE conf.LOGIN_RATE_LIMIT_WINDOW_SEC

limit_of(l) ==
    IF l = "_register_hits" THEN conf.REGISTER_RATE_LIMIT_PER_IP
    ELSE IF l = "_user_hits" THEN conf.LOGIN_RATE_LIMIT_PER_USER
    ELSE conf.LOGIN_RATE_LIMIT_PER_IP

(* a pruning that forgets every hit made before this instant *)
RECURSIVE _prune_to_now(_, _, _)
_prune_to_now(hit_queue, window, t) ==
    IF hit_queue # <<>> /\ hit_queue[1] < t
    THEN _prune_to_now(Tail(hit_queue), window, t)
    ELSE hit_queue

(* _prune_old_hits: popleft while the oldest hit is before now - window *)
RECURSIVE _prune_old_hits(_, _, _)
_prune_old_hits(hit_queue, window, t) ==
    IF hit_queue # <<>> /\ hit_queue[1] < t - window
    THEN _prune_old_hits(Tail(hit_queue), window, t)
    ELSE hit_queue

(* an allow_* that also records the attempts it denies *)
allow_recording_denied(th, l, key) ==
    LET hit_queue == _prune_old_hits(hits[l][key], window_sec(l), clock) IN
    /\ calls[th].pc = "idle"
    /\ hits' = [hits EXCEPT ![l][key] =
                    IF Len(hit_queue) >= limit_of(l) THEN Append(hit_queue, clock)
                    ELSE hit_queue]
    /\ calls' = [calls EXCEPT ![th] =
                    IF Len(hit_queue) >= limit_of(l)
                    THEN [pc |-> "done", limiter |-> l, key |-> key, now |-> clock,
                          returned |-> "False"]
                    ELSE [pc |-> "append", limiter |-> l, key |-> key, now |-> clock,
                          returned |-> "none"]]
    /\ UNCHANGED <<workflow, extras, paging, retention, accounts, errs, clock, granted>>

(* the first half of allow_*: read the clock, prune the key's queue, compare
   its length with the limit and return False when the limit is reached *)
allow(th, l, key) ==
    LET hit_queue == _prune_old_hits(hits[l][key], window_sec(l), clock) IN
    /\ calls[th].pc = "idle"
    /\ hits' = [hits EXCEPT ![l][key] = hit_queue]
    /\ calls' = [calls EXCEPT ![th] =
                    IF Len(hit_queue) >= limit_of(l)
                    THEN [pc |-> "done", limiter |-> l, key |-> key, now |-> clock,
                          returned |-> "False"]
                    ELSE [pc |-> "append", limiter |-> l, key |-> key, now |-> clock,
                          returned |-> "none"]]
    /\ UNCHANGED <<workflow, extras, paging, retention, accounts, errs, clock, granted>>

(* allow_login_ip(), called for a request from client_ip *)
allow_login_ip(th, client_ip) == allow(th, "_ip_hits", client_ip)

(* allow_login_user(username) *)
allow_login_user(th, username) == allow(th, "_user_hits", lower(username))

(* allow_register_ip() *)
allow_register_ip(th, client_ip) == allow(th, "_register_hits", client_ip)

(* the second half of allow_*: hit_queue.append(now); return True *)
append(th) ==
    LET c == calls[th] IN
    /\ c.pc = "append"
    /\ hits' = [hits EXCEPT ![c.limiter][c.key] = Append(@, c.now)]
    /\ granted' = [granted EXCEPT ![c.limiter][c.key] = Append(@, c.now)]
    /\ calls' = [calls EXCEPT ![th] = [c EXCEPT !.pc = "done", !.returned = "True"]]
    /\ UNCHANGED <<workflow, extras, paging, retention, accounts, errs, clock>>

(* the request is answered and its thread takes the next one *)
Finish(th) ==
    /\ calls[th].pc = "done"
    /\ calls' = [calls EXCEPT ![th] = NoCall]
    /\ UNCHANGED <<workflow, extras, paging, retention, accounts, errs, hits, clock, granted>>

(* time.time() moves on *)
Second ==
    /\ clock < MaxClock
    /\ clock' = clock + 1
    /\ UNCHANGED <<workflow, extras, paging, retention, accounts, errs, hits, calls, granted>>

LimiterInit ==
    /\ impl = "flask"
    /\ records = [id \in Ids |-> Absent]
    /\ audit = <<>>
    /\ req = [h \in Slots |-> Idle]
    /\ now = 0
    /\ resp = NoResponse
    /\ PagingAtRest
    /\ RetentionAtRest
    /\ LimiterAtRest
    /\ AccountsAtRest
    /\ ExtrasAtRest
    /\ errs = NoErrors

LimiterStepOf(th) ==
    \/ \E client_ip \in Addresses : allow_login_ip(th, client_ip)
    \/ \E username \in Usernames : allow_login_user(th, username)
    \/ \E client_ip \in Addresses : allow_register_ip(th, client_ip)
    \/ append(th)

(* one call at a time *)
LimiterNext == LimiterStepOf(1) \/ Finish(1) \/ Second

LimiterSpec == LimiterInit /\ [][LimiterNext]_vars

(* calls in several threads at once, one request in each thread *)
LimiterConcNext == (\E th \in Threads : LimiterStepOf(th)) \/ Second

LimiterConcSpec == LimiterInit /\ [][LimiterConcNext]_vars

(* ---------------------------------------------------------- registration *)
(* rows the users table holds at most *)
MaxRegister == 3

RegisterRoles == {"VO", "XX"}

(* the rows of the users table with this username *)
Named(us, username) == {i \in 1..Len(us) : us[i].username = username}

(* an INSERT into a table without the unique index *)
insert_unchecked(us, row) == [ok |-> TRUE, users |-> Append(us, row)]

(* db.add(user); db.commit(): username is unique=True, so the INSERT of a
   name the table holds raises IntegrityError and stores nothing *)
insert(us, row) ==
    IF Named(us, row.username) # {}
    THEN [ok |-> FALSE, users |-> us]
    ELSE [ok |-> TRUE, users |-> Append(us, row)]

(* AuthService.register_user behind POST /api/v1/auth/register (Flask): the
   schema, the password policy, the check for the name, the role, db.add *)
register_user(h, username, role, strong) ==
    /\ impl = "flask"
    /\ regs[h].pc = "idle"
    /\ regs' = [regs EXCEPT ![h] =
            IF role \notin {"VO", "BO"} \/ ~strong
            THEN [pc |-> "idle", username |-> username, role |-> role, code |-> 400]
            ELSE IF Named(users, username) # {}
            THEN [pc |-> "idle", username |-> username, role |-> role, code |-> 400]
            ELSE [pc |-> "commit", username |-> username, role |-> role, code |-> 0]]
    /\ UNCHANGED <<workflow, extras, paging, retention, limiter, errs, users, welcomed>>

(* POST /api/v1/auth/register of server.py: the check for the name, db.add *)
register(h, username, role) ==
    /\ impl = "server"
    /\ regs[h].pc = "idle"
    /\ regs' = [regs EXCEPT ![h] =
            IF Named(users, username) # {}
            THEN [pc |-> "idle", username |-> username, role |-> role, code |-> 400]
            ELSE [pc |-> "commit", username |-> username, role |-> role, code |-> 0]]
    /\ UNCHANGED <<workflow, extras, paging, retention, limiter, errs, users, welcomed>>

(* db.commit() of a register request and its answer: success, or 500 when the
   commit raises *)
register_commit(h) ==
    LET r == regs[h]
        done == insert(users, [username |-> r.username, role |-> r.role]) IN
    /\ r.pc = "commit"
    /\ Len(users) < MaxRegister
    /\ users' = done.users
    /\ regs' = [regs EXCEPT ![h] =
            [r EXCEPT !.pc = "idle",
                      !.code = IF ~done.ok THEN 500
                               ELSE IF impl = "flask" THEN 201 ELSE 200]]
    /\ welcomed' = IF done.ok THEN [welcomed EXCEPT ![r.username] = @ + 1] ELSE welcomed
    /\ UNCHANGED <<workflow, extras, paging, retention, limiter, errs>>

RegisterInit ==
    /\ impl \in {"flask", "server"}
    /\ records = [id \in Ids |-> Absent]
    /\ audit = <<>>
    /\ req = [h \in Slots |-> Idle]
    /\ now = 0
    /\ resp = NoResponse
    /\ AsideAtRest

RegisterNext ==
    \E h \in Slots :
        \/ \E username \in NewNames, role \in RegisterRoles, strong \in BOOLEAN :
                register_user(h, username, role, strong)
        \/ \E username \in NewNames, role \in RegisterRoles : register(h, username, role)
        \/ register_commit(h)

RegisterSpec == RegisterInit /\ [][RegisterNext]_vars

(* ------------------------------------------------- how errors are rendered *)
(* the places that turn a failure into a response *)
ErrorPaths == {"handle_exception", "safe_execute", "get_current_user"}

(* str(exc) of the failures *)
Messages == {"Crop target", "connection to db at 10.0.0.5 refused"}

(* an exception: what went wrong (kind), its Python type, its message *)
Exception(kind, type, message) == [kind |-> kind, type |-> type, message |-> message]

(* the failures a request can meet on each path *)
Raised(path) ==
    IF path = "handle_exception"
    THEN {Exception(k[1], k[2], m) : m \in Messages,
            k \in {<<"ValidationError", "ValidationException">>,
                   <<"Security", "SecurityException">>,
                   <<"PermissionDenied", "PermissionDeniedException">>,
                   <<"NotFound", "ResourceNotFoundException">>,
                   <<"BusinessLogic", "BusinessLogicException">>,
                   <<"Database", "DatabaseException">>,
                   <<"Internal", "KeyError">>,
                   <<"Internal", "RuntimeError">>}}
    ELSE IF path = "safe_execute"
    THEN {Exception(k[1], k[2], m) : m \in Messages,
            k \in {<<"PermissionDenied", "role not in allowed_roles">>,
                   <<"ValidationError", "marshmallow.ValidationError">>,
                   <<"NotFound", "ValueError">>,
                   <<"BusinessLogic", "ValueError">>,
                   <<"Internal", "KeyError">>,
                   <<"Internal", "RuntimeError">>}}
    ELSE {Exception(k[1], k[2], m) : m \in Messages,
            k \in {<<"NotFound", "not user">>,
                   <<"Internal", "KeyError">>,
                   <<"Internal", "RuntimeError">>}}

Rendered(status_code, message) == [status_code |-> status_code, message |-> message]

NotRendered == Rendered(0, <<>>)

(* core.exceptions.handle_exception with EXCEPTION_HANDLERS *)
handle_exception(exc) ==
    IF exc.type = "ValidationException" THEN Rendered(422, <<exc.message>>)
    ELSE IF exc.type = "SecurityException" THEN Rendered(401, <<exc.message>>)
    ELSE IF exc.type = "PermissionDeniedException" THEN Rendered(403, <<exc.message>>)
    ELSE IF exc.type = "ResourceNotFoundException"
    THEN Rendered(404, <<exc.message, " not found">>)
    ELSE IF exc.type = "BusinessLogicException" THEN Rendered(400, <<exc.message>>)
    ELSE IF exc.type = "DatabaseException"
    THEN Rendered(500, <<"Database operation failed">>)
    ELSE Rendered(500, <<"Unexpected error: ", exc.message>>)

(* a blueprint route under require_role and safe_execute: the role check
   answers 403 itself, the route catches the schema's ValidationError, the
   wrapper catches ValueError and then everything else *)
safe_execute_except(exc) ==
    IF exc.type = "role not in allowed_roles" THEN Rendered(403, <<"Access denied">>)
    ELSE IF exc.type = "marshmallow.ValidationError"
    THEN Rendered(400, <<"Invalid input data">>)
    ELSE IF exc.type = "ValueError" THEN Rendered(400, <<exc.message>>)
    ELSE Rendered(500, <<"Internal server error">>)

(* GET /api/v1/auth/me: its own except Exception comes before the wrapper's *)
get_current_user(exc) ==
    IF exc.type = "not user" THEN Rendered(404, <<"User not found">>)
    ELSE Rendered(500, <<"Error retrieving user info: ", exc.message>>)

(* the i-th of the two requests fails and its failure is rendered *)
Render(i, out) ==
    /\ errs.runs[i].out = NotRendered
    /\ errs' = [errs EXCEPT !.runs[i].out = out]
    /\ UNCHANGED <<workflow, extras, paging, retention, limiter, accounts>>

fails_handle_exception(i) ==
    /\ errs.path = "handle_exception"
    /\ Render(i, handle_exception(errs.runs[i].exc))

fails_safe_execute(i) ==
    /\ errs.path = "safe_execute"
    /\ Render(i, safe_execute_except(errs.runs[i].exc))

fails_get_current_user(i) ==
    /\ errs.path = "get_current_user"
    /\ Render(i, get_current_user(errs.runs[i].exc))

ErrorInit ==
    /\ impl = "flask"
    /\ records = [id \in Ids |-> Absent]
    /\ audit = <<>>
    /\ req = [h \in Slots |-> Idle]
    /\ now = 0
    /\ resp = NoResponse
    /\ PagingAtRest
    /\ RetentionAtRest
    /\ LimiterAtRest
    /\ AccountsAtRest
    /\ ExtrasAtRest
    /\ \E path \in ErrorPaths : \E e1 \in Raised(path), e2 \in Raised(path) :
            errs = [path |-> path,
                    runs |-> <<[exc |-> e1, out |-> NotRendered],
                               [exc |-> e2, out |-> NotRendered]>>]

ErrorNext ==
    \E i \in 1..2 :
        \/ fails_handle_exception(i)
        \/ fails_safe_execute(i)
        \/ fails_get_current_user(i)

ErrorSpec == ErrorInit /\ [][ErrorNext]_vars

(* ------------------------------------------------------- login auditing *)
(* login requests of a run *)
MaxLogin == 3
(* the usernames a client tries; "nobody" has no row in users *)
LoginNames == Members \cup {"nobody"}
Passwords == {"right", "wrong"}
LoginServices == {"UserService", "AuthService"}

(* User.check_password: bcrypt.checkpw against the stored hash *)
check_password(username, password) == password = "right"

(* get_by_username / query(User).filter(username, is_active).first() *)
get_by_username(username) == username \in Members

(* User.record_login: login_count + 1 *)
record_login(username) == [login_count EXCEPT ![username] = @ + 1]

(* AuditLog.log_action: the row; db_session.add(audit_log) is the caller's
   Append to the session's pending rows *)
log_action(action, username, success) ==
    [action |-> action, username |-> username, success |-> success]

(* AuthService._log_failed_login: AuditLog.create_log(LOGIN, ...,
   login_success=False) *)
_log_failed_login(username) ==
    [action |-> "LOGIN", username |-> username, success |-> "false"]

(* UserService.authenticate, called by POST /api/v1/auth/login with the
   session of get_db: a successful login adds its row and commits; a failed
   one adds its row and returns None *)
authenticate(username, password) ==
    /\ signin.pc = "idle"
    /\ signin.done < MaxLogin
    /\ IF get_by_username(username) /\ check_password(username, password)
       THEN /\ login_count' = record_login(username)
            /\ authlog' = Append(authlog, log_action("LOGIN_SUCCESS", username, "true"))
            /\ signin' = [signin EXCEPT !.pc = "returned", !.service = "UserService",
                                        !.pending = <<>>, !.result = "user"]
       ELSE /\ signin' = [signin EXCEPT
                            !.pc = "returned", !.service = "UserService",
                            !.pending = <<log_action("LOGIN_FAILED", username, "false")>>,
                            !.result = "None"]
            /\ UNCHANGED <<authlog, login_count>>
    /\ UNCHANGED <<workflow, settled, dashboard, probe>>

(* AuthService.login: an unknown username adds the failed-login row and
   returns the error; for a user that was found, the read of user.is_locked
   raises (models/user.py defines no such member) and except Exception
   returns the error *)
login(username, password) ==
    /\ signin.pc = "idle"
    /\ signin.done < MaxLogin
    /\ signin' = IF ~get_by_username(username)
                 THEN [signin EXCEPT !.pc = "returned", !.service = "AuthService",
                                     !.pending = <<_log_failed_login(username)>>,
                                     !.result = "Invalid username or password"]
                 ELSE [signin EXCEPT !.pc = "returned", !.service = "AuthService",
                                     !.pending = <<>>,
                                     !.result = "Authentication error"]
    /\ UNCHANGED <<workflow, settled, dashboard, probe, authlog, login_count>>

(* get_db, finally: db.close() -- what the session holds uncommitted is
   dropped *)
close ==
    /\ signin.pc = "returned"
    /\ signin' = [signin EXCEPT !.pc = "idle", !.pending = <<>>, !.done = @ + 1]
    /\ UNCHANGED <<workflow, settled, dashboard, probe, authlog, login_count>>

LoginInit ==
    /\ impl = "server_new"
    /\ records = [id \in Ids |-> Absent]
    /\ audit = <<>>
    /\ req = [h \in Slots |-> Idle]
    /\ now = 0
    /\ resp = NoResponse
    /\ AsideAtRest

LoginNext ==
    \/ \E username \in LoginNames, password \in Passwords :
            authenticate(username, password)
    \/ \E username \in LoginNames, password \in Passwords :
            login(username, password)
    \/ close

LoginSpec == LoginInit /\ [][LoginNext]_vars

(* ------------------------- CropTargetService over the seeded store *)
(* is_active = False: the row is kept, exists = "inactive" *)
Inactive(row) == row.exists = "inactive"

(* year and season of the rows: the two sample rows of init_database(), and
   what the create requests of a run carry *)
Harvest ==
    [id \in Ids |->
        IF id = -1 THEN [year |-> 2025, season |-> "Kharif"]
        ELSE IF id = 0 THEN [year |-> 2025, season |-> "Rabi"]
        ELSE [year |-> 2026, season |-> "Kharif"]]

(* the year filter of a summary: left out, or a year *)
YearFilters == {NoYear, 2025, 2026}
SeasonFilters == {None, "Kharif", "Rabi"}
(* the scope of a summary: a submitter, or everyone (user_id left out) *)
Scopes == {None, "vo1", "vo2"}

(* BaseService.soft_delete: None when the row is missing or inactive; the
   audit row is written for a caller that names itself *)
soft_delete(recs, id, user_id) ==
    LET db_obj == get(recs, id) IN
    IF db_obj.exists # "yes" THEN Idle
    ELSE Tx("soft_delete", user_id, id, "deactivate", db_obj, db_obj,
            IF Truthy(user_id) THEN <<AuditEntry("DELETE", id, user_id)>> ELSE <<>>,
            200)

(* a call of crop_target_service.soft_delete(db, id, user_id) *)
soft_delete_target(h, u, id) ==
    /\ impl = "server_new"
    /\ Accepts(h)
    /\ LET tx == soft_delete(records, id, u) IN
       IF tx.op = "idle"
       THEN Respond("soft_delete", 404, "None", "no_such_record")
       ELSE Stage(h, tx)

(* a summary whose pending count leaves out the rows stored as 'pending' *)
get_dashboard_summary_submitted_only(recs, user_id, year, season) ==
    LET base_query == {id \in Ids : /\ recs[id].exists = "yes"
                                    /\ (Truthy(user_id) => recs[id].submitted_by = user_id)
                                    /\ (year # NoYear => Harvest[id].year = year)
                                    /\ (Truthy(season) => Harvest[id].season = season)}
        count(statuses) == Cardinality({id \in base_query : recs[id].status \in statuses})
    IN  [total_targets |-> Cardinality(base_query),
         pending_approvals |-> count({"submitted"}),
         approved_targets |-> count({"approved"}),
         rejected_targets |-> count({"rejected"}),
         draft_targets |-> count({"draft"})]

(* CropTargetService.get_dashboard_summary: the counts (the area sums and
   the approval rate are computed from the same base_query and are left out) *)
get_dashboard_summary(recs, user_id, year, season) ==
    LET base_query == {id \in Ids : /\ recs[id].exists = "yes"
                                    /\ (Truthy(user_id) => recs[id].submitted_by = user_id)
                                    /\ (year # NoYear => Harvest[id].year = year)
                                    /\ (Truthy(season) => Harvest[id].season = season)}
        count(statuses) == Cardinality({id \in base_query : recs[id].status \in statuses})
    IN  [total_targets |-> Cardinality(base_query),
         pending_approvals |-> count({"submitted", "pending"}),
         approved_targets |-> count({"approved"}),
         rejected_targets |-> count({"rejected"}),
         draft_targets |-> count({"draft"})]

(* GET /api/v1/vo/dashboard/summary: the caller's own rows *)
get_vo_summary(h, u, year, season) ==
    /\ impl = "server_new"
    /\ Accepts(h)
    /\ IF ~require_role(Role(u), {"VO"})
       THEN Respond("summary", 403, "Access denied", "role_denied")
       ELSE Return("summary", {get_dashboard_summary(records, u, year, season)})

(* GET /api/v1/bo/dashboard/summary: all rows *)
get_bo_summary(h, u, year, season) ==
    /\ impl = "server_new"
    /\ Accepts(h)
    /\ IF ~require_role(Role(u), {"BO"})
       THEN Respond("summary", 403, "Access denied", "role_denied")
       ELSE Return("summary", {get_dashboard_summary(records, None, year, season)})

ServiceInit ==
    /\ impl = "server_new"
    /\ records = SeedRecords
    /\ audit = <<>>
    /\ req = [h \in Slots |-> Idle]
    /\ now = 0
    /\ resp = NoResponse
    /\ AsideAtRest

(* the service is called by one request after the other; the callers hold
   the role of the endpoint *)
ServiceNext ==
    \/ \E u \in VOs : new_create_crop_target(1, u, 1)
    \/ \E id \in Ids, area \in Areas \ {0} : new_update_crop_target(1, "vo1", id, area)
    \/ \E id \in Ids : new_submit_crop_target(1, "vo1", id)
    \/ \E id \in Ids :
         \E approval_data \in {d \in ApprovalRequests :
                                    d.action # "hold" /\ d.rejection_reason \in {None, "dry"}} :
            new_approve_crop_target(1, "bo1", id, approval_data)
    \/ \E u \in {None, "vo1"}, id \in Ids : soft_delete_target(1, u, id)
    \/ \E status \in StatusFilters : new_get_my_submissions(1, "vo1", status)
    \/ new_get_pending_approvals(1, "bo1")
    \/ \E year \in YearFilters, season \in SeasonFilters :
            get_vo_summary(1, "vo1", year, season)
    \/ \E year \in YearFilters, season \in SeasonFilters :
            get_bo_summary(1, "bo1", year, season)
    \/ Commit(1)
    \/ Deliver

ServiceSpec == ServiceInit /\ [][ServiceNext]_vars

(* ------------------------------------------------- the dashboard cache *)
(* ticks of the clock of a run *)
MaxTick == 3
(* approvals and rejections committed in a run *)
MaxDecided == 2
(* cache_ttl=300 of DashboardService, in ticks *)
cache_ttl == 2

(* a cache entry that is still served at the moment its ttl has passed *)
_is_cache_valid_through_ttl(cache_entry, t) ==
    cache_entry # NoEntry /\ (t - cache_entry.timestamp) <= cache_ttl

(* CacheableService._is_cache_valid *)
_is_cache_valid(cache_entry, t) ==
    cache_entry # NoEntry /\ (t - cache_entry.timestamp) < cache_ttl

(* CacheableService._get_cache: the entry's data if it is valid, else None *)
_get_cache(c, key, t) == IF _is_cache_valid(c[key], t) THEN c[key].data ELSE NoData

(* CacheableService._set_cache *)
_set_cache(c, key, data, t) == [c EXCEPT ![key] = [data |-> data, timestamp |-> t]]

(* dashboard_data: what the queries find in the store, and generated_at *)
dashboard_data(store, t) ==
    [approved |-> store.approved, rejected |-> store.rejected, generated_at |-> t]

(* the body of get_vo_dashboard and get_bo_dashboard: a valid entry is
   returned; else the dashboard is computed and cached, or the queries raise
   and except Exception returns the error. The result is the cache and the
   answer; stale: the answer is not what the store gives now *)
get_dashboard(cache_key, raises) ==
    LET cached_data == _get_cache(cache, cache_key, dclock)
        dashboard_data_now == dashboard_data(tally, dclock)
        answer(data, success) ==
            [n |-> 1 - served.n, key |-> cache_key, data |-> data, success |-> success,
             stale |-> success /\ (data.approved # tally.approved
                                        \/ data.rejected # tally.rejected)] IN
    IF cached_data # NoData
    THEN [cache |-> cache, served |-> answer(cached_data, TRUE)]
    ELSE IF ~raises
    THEN [cache |-> _set_cache(cache, cache_key, dashboard_data_now, dclock),
          served |-> answer(dashboard_data_now, TRUE)]
    ELSE [cache |-> cache, served |-> answer(NoData, FALSE)]

(* DashboardService.get_vo_dashboard(user_id, filters) *)
get_vo_dashboard(user_id, year, raises) ==
    LET result == get_dashboard(_get_cache_key("vo_dashboard", user_id, year), raises) IN
    /\ cache' = result.cache
    /\ served' = result.served
    /\ UNCHANGED <<workflow, settled, logins, probe, tally, dclock>>

(* DashboardService.get_bo_dashboard(filters) *)
get_bo_dashboard(year, raises) ==
    LET result == get_dashboard(_get_cache_key("bo_dashboard", None, year), raises) IN
    /\ cache' = result.cache
    /\ served' = result.served
    /\ UNCHANGED <<workflow, settled, logins, probe, tally, dclock>>

(* an approval or a rejection is committed to the store *)
Decide(status) ==
    /\ tally.approved + tally.rejected < MaxDecided
    /\ tally' = [tally EXCEPT ![status] = @ + 1]
    /\ UNCHANGED <<workflow, settled, logins, probe, cache, dclock, served>>

(* time passes *)
Pass ==
    /\ dclock < MaxTick
    /\ dclock' = dclock + 1
    /\ UNCHANGED <<workflow, settled, logins, probe, cache, tally, served>>

DashboardInit ==
    /\ impl = "server_new"
    /\ records = [id \in Ids |-> Absent]
    /\ audit = <<>>
    /\ req = [h \in Slots |-> Idle]
    /\ now = 0
    /\ resp = NoResponse
    /\ AsideAtRest

DashboardNext ==
    \/ \E raises \in BOOLEAN : get_vo_dashboard("vo1", NoYear, raises)
    \/ \E raises \in BOOLEAN : get_bo_dashboard(NoYear, raises)
    \/ \E status \in {"approved", "rejected"} : Decide(status)
    \/ Pass

DashboardSpec == DashboardInit /\ [][DashboardNext]_vars

(* --------------------------------------- the startup connectivity check *)
(* the largest retries a call is made with *)
MaxRetries == 4
Retries == (0 - 1)..MaxRetries
Delays == {0, 1}
Apps == {"app", "None"}

(* a loop that goes round once more *)
keep_trying_once_more(attempt, retries) == attempt <= retries

(* while attempt < retries *)
keep_trying(attempt, retries) == attempt < retries

(* test_db_connection(app, retries, delay): attempt = 0 *)
test_db_connection(app, retries, delay) ==
    /\ probe.pc \in {"idle", "returned"}
    /\ probe' = [NoProbe EXCEPT !.pc = "while", !.app = app, !.retries = retries,
                                !.delay = delay]
    /\ UNCHANGED <<workflow, settled, logins, dashboard>>

(* the loop's test; return False when it fails *)
test_db_connection_while ==
    /\ probe.pc = "while"
    /\ probe' = IF keep_trying(probe.attempt, probe.retries)
                THEN [probe EXCEPT !.pc = "try"]
                ELSE [probe EXCEPT !.pc = "returned", !.result = "False"]
    /\ UNCHANGED <<workflow, settled, logins, dashboard>>

(* try: connect and SELECT 1; return True *)
test_db_connection_try ==
    /\ probe.pc = "try"
    /\ probe' = [probe EXCEPT !.pc = "returned", !.connects = @ + 1, !.result = "True"]
    /\ UNCHANGED <<workflow, settled, logins, dashboard>>

(* except Exception: attempt += 1, and the sleep before another attempt *)
test_db_connection_except ==
    /\ probe.pc = "try"
    /\ probe' = [probe EXCEPT
                    !.pc = "while", !.connects = @ + 1, !.failures = @ + 1,
                    !.attempt = @ + 1,
                    !.sleeps = IF probe.attempt + 1 < probe.retries /\ probe.delay > 0
                               THEN @ + 1 ELSE @]
    /\ UNCHANGED <<workflow, settled, logins, dashboard>>

ProbeInit ==
    /\ impl = "flask"
    /\ records = [id \in Ids |-> Absent]
    /\ audit = <<>>
    /\ req = [h \in Slots |-> Idle]
    /\ now = 0
    /\ resp = NoResponse
    /\ AsideAtRest

ProbeNext ==
    \/ \E app \in Apps, retries \in Retries, delay \in Delays :
            test_db_connection(app, retries, delay)
    \/ test_db_connection_while
    \/ test_db_connection_try
    \/ test_db_connection_except

ProbeSpec == ProbeInit /\ [][ProbeNext]_vars

(* the ids a walk has seen more than once *)
SeenTwice == {i \in 1..Len(walk.seen) : \E j \in 1..Len(walk.seen) :
                    i # j /\ walk.seen[i] = walk.seen[j]}

(* C21: for a fixed table and filter, listing all pages with page size P and
   with page size 2P brings the same number of items, for every P, and no
   record comes twice in the pages of one listing, also when records share
   their creation time. *)
C21_PagesPartitionTheList ==
    /\ SeenTwice = {}
    /\ \A per_page \in PerPages :
            (2 * per_page \in PerPages /\ counts[per_page] >= 0
                /\ counts[2 * per_page] >= 0)
                => counts[per_page] = counts[2 * per_page]

(* C22: the pagination block of the list-own and list-pending routes has
   total = the number of matching records and pages = ceil(total / per_page),
   for every number of matching records and every per_page >= 1. *)
C22_TotalCountsAllMatches ==
    (walk.via \in {"get_my_submissions", "get_pending_approvals"} /\ walk.page > 1)
        => /\ walk.total = Len(rows)
           /\ walk.pages * walk.per_page >= walk.total
           /\ (walk.pages - 1) * walk.per_page < walk.total

(* C23: the audit log is append-only: over any sequence of workflow operations
   (retention cleanup aside) every entry once written stays, unchanged and in
   its place; entries are only added at the end. *)
C23_AuditAppendOnly ==
    [][/\ Len(audit') >= Len(audit)
       /\ SubSeq(audit', 1, Len(audit)) = audit]_vars

C23_Witness ==
    /\ Len(audit) >= 2
    /\ audit[1].action = "CREATE"
    /\ resp.branch = "committed"

(* a cleanup call returns success in this step *)
CleanupSucceeds == sweep.pc # "idle" /\ sweep'.pc = "idle" /\ sweep'.result = "success"

(* the step adds the one entry of a cleanup, with the number of rows deleted *)
CleanupLogged(deleted_count) ==
    \E kept \in {trail, delete(trail, sweep.cutoff)} :
        trail' = Append(kept, create_log("DELETE", "audit_log", deleted_count, today))

(* C24: every retention cleanup that returns success has produced exactly one
   audit entry that documents the number of entries deleted, also when that
   number is 0, and the entry is committed together with the deletion. *)
C24_CleanupIsLogged ==
    [][/\ CleanupSucceeds => CleanupLogged(sweep'.deleted_count)
       /\ (sweep.pc = "delete" /\ trail' # trail)
            => CleanupLogged(Len(trail) - Len(trail') + 1)]_vars

(* the calls for key k of limiter l that returned True with a timestamp in [from, to] *)
GrantedIn(l, k, from, to) ==
    {i \in 1..Len(granted[l][k]) : from <= granted[l][k][i] /\ granted[l][k][i] <= to}

(* C25: the limiters are sliding windows: in a run of calls made one after the
   other, for every key and every instant t at most `limit` allowed attempts
   have a timestamp in [t - window, t]; the next attempt in a window is denied. *)
C25_SlidingWindow ==
    \A l \in Limiters, k \in LimiterKeys, t \in 0..MaxClock :
        Cardinality(GrantedIn(l, k, t - window_sec(l), t)) <= limit_of(l)

C25_Witness ==
    /\ calls[1].returned = "False"
    /\ calls[1].limiter = "_user_hits"
    /\ clock = calls[1].now
    /\ Cardinality(GrantedIn("_user_hits", calls[1].key,
                              clock - window_sec("_user_hits"), clock))
            = limit_of("_user_hits")
    /\ Len(granted["_user_hits"][calls[1].key]) > limit_of("_user_hits")

(* C30: when calls of allow_login_ip (allow_login_user, allow_register_ip) for
   one key run in several threads, interleaved between the length check and
   the append, the calls that return True within one window are never more than
   the limit. *)
C30_LimitHoldsAcrossThreads ==
    \A l \in Limiters, k \in LimiterKeys :
        \A i \in 1..Len(granted[l][k]) :
            Cardinality(GrantedIn(l, k, granted[l][k][i] - window_sec(l), granted[l][k][i]))
                <= limit_of(l)

(* C26: user names are unique in every reachable state: of register calls
   with one name, also calls in progress at once, at most one user is stored
   and at most one call reports success. *)
C26_UsernamesUnique ==
    \A username \in NewNames :
        /\ Cardinality(Named(users, username)) <= 1
        /\ welcomed[username] <= 1

C26_Witness ==
    \E h, o \in Slots :
        /\ h # o
        /\ regs[h].username = regs[o].username
        /\ regs[h].code \in {200, 201}
        /\ regs[o].code = 500
        /\ Cardinality(Named(users, regs[h].username)) = 1

(* both failing requests have been answered *)
BothRendered ==
    /\ errs.path # "none"
    /\ errs.runs[1].out # NotRendered
    /\ errs.runs[2].out # NotRendered

(* the status code the claim gives a kind of failure *)
StatusOfKind(out, kind) ==
    CASE kind = "PermissionDenied" -> out.status_code = 403
      [] kind = "NotFound" -> out.status_code = 404
      [] kind = "ValidationError" -> out.status_code \in {400, 422}
      [] OTHER -> TRUE

(* C27: a role denial is answered 403, a missing record 404, invalid input
   400 or 422, and no two of PermissionDenied, NotFound and ValidationError
   are rendered with the same status code. *)
C27_ErrorKindsHaveTheirStatus ==
    BothRendered =>
        LET a == errs.runs[1]
            b == errs.runs[2] IN
        /\ StatusOfKind(a.out, a.exc.kind)
        /\ ({a.exc.kind, b.exc.kind} \subseteq {"PermissionDenied", "NotFound", "ValidationError"}
                /\ a.exc.kind # b.exc.kind)
            => a.out.status_code # b.out.status_code

(* C28: an unexpected error never shows internals: two requests that fail with
   unexpected exceptions that differ only in type and message get the same
   response, status 500 with a generic message. *)
C28_InternalErrorsLookAlike ==
    (BothRendered /\ errs.runs[1].exc.kind = "Internal"
                  /\ errs.runs[2].exc.kind = "Internal")
        => /\ errs.runs[1].out = errs.runs[2].out
           /\ errs.runs[1].out.status_code = 500

(* an approve or reject request of approver u for record id, with any body *)
AnyDecisionCall(h, u, id) ==
    \/ \E approval_data \in ApprovalRequests :
            new_approve_crop_target(h, u, id, approval_data)
    \/ \E data \in ApprovalActions : bo_approve_crop_target(h, u, id, data)

(* C29: an approve or reject of an id that does not exist, or of a record
   whose status is draft, approved or rejected, fails and leaves the record's
   status, approved_by, approved_at, remarks and rejection_reason and the
   audit log as they were. *)
C29_DecisionNeedsPendingRecord ==
    [][\A h \in Slots, u \in BOs, id \in Ids :
        (AnyDecisionCall(h, u, id)
            /\ (records[id].exists # "yes"
                    \/ records[id].status \in {"draft", "approved", "rejected"}))
            => /\ resp'.code >= 400
               /\ NothingChanged]_vars

C29_Witness ==
    /\ resp.branch = "not_pending"
    /\ resp.op \in {"approve", "reject"}
    /\ resp.code \in {400, 404}
    /\ \E id \in Ids : records[id].exists = "yes" /\ records[id].status = "rejected"

(* the queues of the other keys and limiters are as they were *)
OtherQueuesUnchanged(l, key) ==
    \A m \in Limiters, k \in LimiterKeys :
        <<m, k>> # <<l, key>> => hits'[m][k] = hits[m][k]

(* the key's queue is full and its oldest hit is `age` seconds old or older *)
FullSince(l, key, age) ==
    /\ Len(hits[l][key]) = limit_of(l)
    /\ clock - hits[l][key][1] >= age

(* what C31 says of an attempt, with the age of the oldest hit from which a
   full queue lets the next attempt through *)
DeniedLeavesNoTrace(age) ==
    \A th \in Threads, l \in Limiters, key \in LimiterKeys :
        /\ allow(th, l, key)
            => /\ OtherQueuesUnchanged(l, key)
               /\ calls'[th].returned = "False"
                    => (Len(hits'[l][key]) <= Len(hits[l][key]) /\ granted' = granted)
               /\ FullSince(l, key, age) => calls'[th].pc = "append"
        /\ (append(th) /\ calls[th].limiter = l /\ calls[th].key = key)
            => OtherQueuesUnchanged(l, key)

(* C31 as stated: a denied attempt is not recorded; a key that has reached its
   limit is allowed again as soon as the window length has elapsed since its
   oldest recorded allowed attempt, whatever denied attempts came in between;
   an attempt for one key never changes the queue of another key. *)
C31_AllowedAgainAtWindow ==
    [][DeniedLeavesNoTrace(window_sec("_ip_hits"))]_vars

(* C31 amended: the same, with the key allowed again once MORE than the window
   length has elapsed since its oldest recorded allowed attempt (at exactly the
   window length that attempt still counts). *)
C31_AllowedAgainAfterWindow ==
    [][DeniedLeavesNoTrace(window_sec("_ip_hits") + 1)]_vars

C31_Witness ==
    /\ calls[1].pc = "append"
    /\ Len(granted[calls[1].limiter][calls[1].key]) = limit_of(calls[1].limiter)
    /\ calls[1].now - granted[calls[1].limiter][calls[1].key][1]
            > window_sec(calls[1].limiter)
    /\ Len(hits[calls[1].limiter][calls[1].key]) < limit_of(calls[1].limiter)

(* the rows a cleanup with that cutoff has no reason to touch *)
KeptByCleanup(tr, cutoff) == SelectSeq(tr, LAMBDA e : e.timestamp >= cutoff)

(* C32: a retention cleanup removes exactly the audit entries stamped
   strictly before now - H, H its horizon and now the time the call read:
   what is left after the delete is the rows stamped at or after that
   moment, unchanged and in their order; and the entry the cleanup writes
   about itself is added to the table as it stood after the delete, so it is
   not among the rows that invocation removed *)
C32_CleanupRemovesExactlyExpired ==
    [][/\ (sweep.pc = "idle" /\ sweep'.pc = "count")
            => (\E H \in RetentionDays : sweep'.cutoff = today - H) /\ trail' = trail
       /\ (sweep.pc = "count" /\ sweep'.pc # "count") => trail' = trail
       /\ (sweep.pc = "count" /\ sweep'.pc = "idle")
            => KeptByCleanup(trail, sweep.cutoff) = trail
       /\ (sweep.pc = "delete" /\ sweep'.pc = "log")
            => trail' = KeptByCleanup(trail, sweep.cutoff)
       /\ (sweep.pc = "log" /\ sweep'.pc = "idle" /\ sweep'.result = "success")
            => /\ Len(trail') = Len(trail) + 1
               /\ SubSeq(trail', 1, Len(trail)) = trail
               /\ trail'[Len(trail')].action = "DELETE"
               /\ trail'[Len(trail')].resource_type = "audit_log"
               /\ ~(trail'[Len(trail')].timestamp < sweep.cutoff)]_vars

(* a cleanup that removed a row, kept a row stamped at its cutoff and wrote
   its own entry has returned *)
C32_Witness ==
    /\ sweep.pc = "idle"
    /\ sweep.result = "success"
    /\ Len(trail) >= 2
    /\ trail[Len(trail)].action = "DELETE"
    /\ trail[Len(trail)].deleted_count >= 1
    /\ \E i \in 1..(Len(trail) - 1) : trail[i].timestamp = sweep.cutoff

(* C33: every login attempt the authentication services handle, successful
   or failed, has left exactly one committed audit entry once its request
   has finished and its session is closed: with no request in progress the
   table holds one login row per finished attempt *)
C33_EveryLoginIsAudited ==
    signin.pc = "idle" => Len(authlog) = signin.done

(* the store without the row of this id *)
Without(recs, id) == [recs EXCEPT ![id] = Absent]

(* every call of the service on this id fails *)
NoCallSucceeds(recs, id) ==
    /\ \A u \in Users \cup {None} : soft_delete(recs, id, u) = Idle
    /\ \A u \in Users, area \in Areas : update(recs, id, area, u) = Idle
    /\ \A u \in Users : submit_for_approval(recs, id, u, now + 1) = Idle
    /\ \A u \in Users :
            LET t == now + 1 IN
            /\ \A remarks \in Remarks : approve_target(recs, id, u, remarks, t) = Idle
            /\ \A reason \in Reasons : reject_target(recs, id, u, reason, t) = Idle

(* no listing and no summary of the service shows the row *)
ShownNowhere(recs, id) ==
    /\ get(recs, id) = Absent
    /\ id \notin get_pending_approvals(recs)
    /\ \A u \in Users, status \in StatusFilters : id \notin get_by_submitter(recs, u, status)
    /\ \A user_id \in Scopes, year \in YearFilters, season \in SeasonFilters :
            get_dashboard_summary(recs, user_id, year, season)
                = get_dashboard_summary(Without(recs, id), user_id, year, season)

(* C34: a soft-deleted record (is_active false) is frozen: get returns
   nothing for its id, every later update, submit, approve, reject and
   soft_delete on its id fails, no step changes any of its fields, no listing
   and no summary of the service shows it, and is_active does not become true
   again *)
C34_SoftDeletedIsFrozen ==
    [][\A id \in Ids :
            Inactive(records[id])
                => /\ NoCallSucceeds(records, id)
                   /\ ShownNowhere(records, id)
                   /\ records'[id] = records[id]
                   /\ \A h \in Slots : req'[h].op # "idle" => req'[h].id # id]_vars

(* a row that awaited approval was soft-deleted, and the approval tried on
   it afterwards was answered "not found" *)
C34_Witness ==
    /\ \E id \in Ids : Inactive(records[id]) /\ is_pending_approval(records[id])
    /\ \A id \in Ids : records[id].exists = "yes" => ~is_pending_approval(records[id])
    /\ resp.op = "approve"
    /\ resp.branch = "no_such_record"

(* the four status counts of a summary make up its total *)
AddsUp(summary) ==
    summary.total_targets = summary.draft_targets + summary.pending_approvals
                                + summary.approved_targets + summary.rejected_targets

(* C35: in every state of the store the workflow operations reach from the
   seeded store, for every scope and every year/season filter, the summary's
   total_targets is draft_targets + pending_approvals + approved_targets +
   rejected_targets, pending_approvals counting the rows stored as
   'submitted' and those stored as 'pending'; and so is every summary a
   request was answered with *)
C35_SummaryAddsUp ==
    /\ \A user_id \in Scopes, year \in YearFilters, season \in SeasonFilters :
            AddsUp(get_dashboard_summary(records, user_id, year, season))
    /\ (resp.op = "summary" /\ resp.code = 200) => \A summary \in resp.items : AddsUp(summary)

(* a summary was answered that counts a row stored as 'pending' and a row
   stored as 'submitted' as pending approvals *)
C35_Witness ==
    /\ resp.op = "summary"
    /\ resp.code = 200
    /\ \E summary \in resp.items : summary.pending_approvals = 2
    /\ \E a, b \in Ids : /\ records[a].exists = "yes" /\ records[a].status = "pending"
                         /\ records[b].exists = "yes" /\ records[b].status = "submitted"

(* the attempts a call with this retries may make *)
AttemptsAllowed(retries) == IF retries > 0 THEN retries ELSE 0

(* a dashboard request was answered in this step *)
Asked == served'.n # served.n

(* C36: the dashboard cache bounds staleness by its TTL: a dashboard computed
   at time t for a key is returned unchanged to every request with that key
   before t + ttl, whatever approvals and rejections were committed in
   between, and a request at or after t + ttl (or for a key never computed)
   is computed from the store and cached with the time of that computation *)
C36_CacheBoundsStaleness ==
    [][/\ \A key \in DashboardKeys :
            cache[key] # NoEntry => cache[key].data.generated_at = cache[key].timestamp
       /\ ~Asked => cache' = cache
       /\ Asked =>
            LET key == served'.key
                t == cache[key].timestamp IN
            IF cache[key] # NoEntry /\ dclock < t + cache_ttl
            THEN /\ served'.success
                 /\ served'.data = cache[key].data
                 /\ cache' = cache
            ELSE IF served'.success
            THEN /\ served'.data = dashboard_data(tally, dclock)
                 /\ cache' = [cache EXCEPT ![key] = [data |-> served'.data,
                                                     timestamp |-> dclock]]
            ELSE cache' = cache]_vars

(* a request was answered from the cache with a dashboard that the store,
   after a decision committed since, no longer gives *)
C36_Witness ==
    /\ served.success
    /\ served.stale
    /\ served.data.generated_at < dclock
    /\ dclock < served.data.generated_at + cache_ttl

(* C37: the connectivity check makes at most `retries` attempts: it returns
   True at its first successful attempt and makes no further one, returns
   False after exactly `retries` failed attempts in a row, and makes no
   attempt at all when retries <= 0 *)
C37_ProbeStopsWithinRetries ==
    /\ probe.connects <= AttemptsAllowed(probe.retries)
    /\ probe.connects - probe.failures \in {0, 1}
    /\ (probe.connects - probe.failures = 1)
            <=> (probe.pc = "returned" /\ probe.result = "True")
    /\ (probe.pc = "returned" /\ probe.result = "False")
            => (probe.failures = AttemptsAllowed(probe.retries)
                    /\ probe.connects = probe.failures)
    /\ (probe.pc = "returned" /\ probe.retries <= 0)
            => (probe.connects = 0 /\ probe.result = "False")
    /\ probe.pc = "returned" => probe.result \in {"True", "False"}

(* a call with retries = 3 returned False after three failed attempts *)
C37_Witness ==
    /\ probe.pc = "returned"
    /\ probe.result = "False"
    /\ probe.retries = 3
    /\ probe.failures = 3

====
